---- MODULE Spec2Model ----
(***************************************************************************)
(* MPlug, the plugin manager for mpv (src/src/mplug).  One action is one   *)
(* command invocation: main() builds an MPlug object (which loads the      *)
(* Ledger from the state file), runs the operation and, when the operation *)
(* returns, writes the Ledger back.  Paths and texts are strings; the      *)
(* file system is the target directories (symlinks and foreign files) and  *)
(* the plugin directories below the working directory.                     *)
(***************************************************************************)
EXTENDS Integers, Sequences, FiniteSets, TLC

VARIABLES
    platform_system,    \* platform.system() of the host
    platform_machine,   \* platform.machine() of the host
    script_directory,   \* MPlug.script_directory: the Catalog, id -> entry
    statefile,          \* <workdir>/installed_plugins on disk
    installed_plugins,  \* MPlug.installed_plugins of the latest invocation
    targets,            \* path -> entry, for every entry of a target directory
    dirs,               \* the target directories that exist
    workdir,            \* install_dir -> files below it, for every existing one
    last,               \* what the latest invocation did and how it ended
    resolved_templates, \* text -> util.resolve_templates(text) on this host
    call                \* the latest direct call of a method, and the one before

vars == <<platform_system, platform_machine, resolved_templates, call,
          script_directory, statefile,
          installed_plugins,
          targets, dirs, workdir, last>>

-----------------------------------------------------------------------------
(* Bounds of the model *)

\* at most this many foreign (non-symlink) files lie in the target
\* directories when the first command runs
MaxForeign == 1

\* a fetch may deliver a tree in which at most this many of the files the
\* catalog lists are missing
MaxMissing == 1

-----------------------------------------------------------------------------
(* Texts *)

StartsWithAt(text, i, pat) ==
    /\ i + Len(pat) - 1 <= Len(text)
    /\ SubSeq(text, i, i + Len(pat) - 1) = pat

\* pat in text
Contains(text, pat) == \E i \in 1..(Len(text) + 1) : StartsWithAt(text, i, pat)

\* str.replace(old, new): every non-overlapping occurrence, left to right
RECURSIVE str_replace_from(_, _, _, _)
str_replace_from(text, i, old, new) ==
    IF i > Len(text) THEN ""
    ELSE IF StartsWithAt(text, i, old)
         THEN new \o str_replace_from(text, i + Len(old), old, new)
         ELSE SubSeq(text, i, i) \o str_replace_from(text, i + 1, old, new)

\* str.replace that replaces the first occurrence only
RECURSIVE str_replace_first_from(_, _, _, _)
str_replace_first_from(text, i, old, new) ==
    IF i > Len(text) THEN ""
    ELSE IF StartsWithAt(text, i, old)
         THEN new \o SubSeq(text, i + Len(old), Len(text))
         ELSE SubSeq(text, i, i) \o str_replace_first_from(text, i + 1, old, new)

str_replace_first(text, old, new) == str_replace_first_from(text, 1, old, new)

str_replace(text, old, new) == str_replace_from(text, 1, old, new)

\* re.sub(r"(\.?)" + placeholder, repl, text) where repl is r"\1" + ext, or
\* the empty string (which drops the dot the group matched)
RECURSIVE re_sub_ext_from(_, _, _, _, _)
re_sub_ext_from(text, i, placeholder, keep_group, ext) ==
    IF i > Len(text) THEN ""
    ELSE IF StartsWithAt(text, i, "." \o placeholder)
         THEN (IF keep_group THEN "." \o ext ELSE "")
              \o re_sub_ext_from(text, i + 1 + Len(placeholder), placeholder,
                                 keep_group, ext)
    ELSE IF StartsWithAt(text, i, placeholder)
         THEN (IF keep_group THEN ext ELSE "")
              \o re_sub_ext_from(text, i + Len(placeholder), placeholder,
                                 keep_group, ext)
    ELSE SubSeq(text, i, i)
         \o re_sub_ext_from(text, i + 1, placeholder, keep_group, ext)

\* re_sub_ext without the group for the dot in the pattern
re_sub_ext_no_group(text, placeholder, keep_group, ext) ==
    str_replace_from(text, 1, placeholder, IF keep_group THEN ext ELSE "")

re_sub_ext(text, placeholder, keep_group, ext) ==
    re_sub_ext_from(text, 1, placeholder, keep_group, ext)

\* str.lower() of the names platform.system() can return here
lower(system) ==
    CASE system = "Linux" -> "linux"
      [] system = "Windows" -> "windows"
      [] system = "Darwin" -> "darwin"
      [] OTHER -> system

\* util.resolve_templates on a host with the given platform.system() and
\* platform.machine()
resolve_templates_on(system, machine, text) ==
    LET os_name == lower(system)
        arch == machine
        arch_short == str_replace(arch, "x86_", "x")
        windows == os_name = "windows"
        t1 == re_sub_ext(text, "{{shared-lib-ext}}", TRUE,
                         IF windows THEN "dll" ELSE "so")
        t2 == re_sub_ext(t1, "{{executable-ext}}", windows, "exe")
        t3 == str_replace(t2, "{{os}}", os_name)
        t4 == str_replace(t3, "{{arch}}", arch)
    IN str_replace(t4, "{{arch-short}}", arch_short)

\* Path(file).name: the text after the last "/"
PathName(file) ==
    LET slashes == {i \in 1..Len(file) : SubSeq(file, i, i) = "/"}
    IN IF slashes = {} THEN file
       ELSE LET k == CHOOSE i \in slashes : \A j \in slashes : j <= i
            IN SubSeq(file, k + 1, Len(file))

\* dir / name
Join(dir, name) == dir \o "/" \o name

\* dict.get(key, default)
Get(d, key, default) == IF key \in DOMAIN d THEN d[key] ELSE default

-----------------------------------------------------------------------------
(* The Catalog (MPlug.script_directory, read from mpv_script_directory.json) *)

\* two plugins that expose a script of the same name; "b" can be named by
\* its display name, and lists the host's operating system
LifecycleCatalog ==
    [a |-> [name |-> "a", desc |-> "Alpha script",
            install |-> "git", receiving_url |-> "https://h/a.git",
            install_dir |-> "a",
            scriptfiles |-> <<"x.lua", "y.lua">>],
     b |-> [name |-> "beta", desc |-> "Beta filter",
            install |-> "tar", receiving_url |-> "https://h/b-{{os}}.tar",
            install_dir |-> "b", os |-> <<"Linux", "Darwin">>,
            scriptfiles |-> <<"sub/x.lua">>]]

\* entries that cannot be installed, or only after a question; three of them
\* share a display name
BrokenCatalog ==
    [c |-> [name |-> "alpha", desc |-> "another ALPHA",
            install |-> "url", receiving_url |-> "https://h/c.lua",
            install_dir |-> "c", filename |-> "c-{{arch-short}}.lua",
            shaderfiles |-> <<"c-{{arch-short}}.lua">>],
     noinst |-> [name |-> "alpha", desc |-> "no method yet",
                 os |-> <<"Windows">>],
     nodir |-> [name |-> "delta", desc |-> "", install |-> "git",
                receiving_url |-> "https://h/d.git"],
     odd |-> [name |-> "c", desc |-> "", install |-> "svn",
              receiving_url |-> "https://h/o", install_dir |-> "odd"],
     win |-> [name |-> "alpha", desc |-> "", install |-> "git",
              receiving_url |-> "https://h/w.git", install_dir |-> "w",
              os |-> <<"Windows">>]
             @@ ("install-notes" :> "Restart mpv")]

\* a plugin that is fetched as a single file
LegacyCatalog ==
    [u |-> [name |-> "u", desc |-> "Upscaler",
            install |-> "url", receiving_url |-> "https://h/u-{{os}}.lua",
            install_dir |-> "u", filename |-> "u-{{arch-short}}.lua",
            scriptfiles |-> <<"u-{{arch-short}}.lua">>]]

\* entries with an install method that lack a field the method needs
IncompleteCatalog ==
    [nofile |-> [name |-> "nofile", desc |-> "", install |-> "url",
                 receiving_url |-> "https://h/f.lua", install_dir |-> "f",
                 scriptfiles |-> <<"f.lua">>],
     nourl |-> [name |-> "nourl", desc |-> "", install |-> "tar",
                install_dir |-> "n", os |-> <<>>,
                scriptfiles |-> <<"n.lua">>]]

Catalogs == {LifecycleCatalog, BrokenCatalog, LegacyCatalog,
             IncompleteCatalog}

\* plugins with executables: "e" has one, "n" has the key with an empty list
ExeCatalog ==
    [e |-> [name |-> "encoder", desc |-> "", install |-> "git",
            receiving_url |-> "https://h/e.git", install_dir |-> "e",
            scriptfiles |-> <<"e.lua">>, exefiles |-> <<"enc">>],
     n |-> [name |-> "n", desc |-> "", install |-> "git",
            receiving_url |-> "https://h/n.git", install_dir |-> "n",
            scriptfiles |-> <<"n.lua">>, exefiles |-> <<>>]]

\* the Ledger of a state file in which the record of "e" lists its
\* executable but not the directory it was linked into
ExeLedger ==
    [e |-> ("state" :> "active") @@ ("install_date" :> "then")
           @@ ExeCatalog.e]

\* the Ledger a state file holds that earlier versions of the program and
\* of the catalog wrote: "u" disabled, and "old" with a method that is no
\* longer known
LegacyLedger ==
    [u |-> ("state" :> "disabled") @@ ("install_date" :> "then")
           @@ LegacyCatalog.u,
     old |-> [name |-> "old", desc |-> "", install |-> "svn",
              receiving_url |-> "https://h/old", install_dir |-> "old",
              state |-> "active", install_date |-> "then"]]

\* two plugins of one display name, and a third whose description names it
ChoiceCatalog ==
    [k \in {"foo-a", "foo-b", "bar"} |->
        IF k = "foo-a"
        THEN [name |-> "foo", desc |-> "Foo for A", install |-> "git",
              receiving_url |-> "https://h/foo-a.git",
              install_dir |-> "foo-a", scriptfiles |-> <<"fa.lua">>]
        ELSE IF k = "foo-b"
        THEN [name |-> "foo", desc |-> "the other one", install |-> "git",
              receiving_url |-> "https://h/foo-b.git",
              install_dir |-> "foo-b", scriptfiles |-> <<"fb.lua">>]
        ELSE [name |-> "Barista", desc |-> "FOO helper", install |-> "git",
              receiving_url |-> "https://h/bar.git",
              install_dir |-> "bar", scriptfiles |-> <<>>]]

\* the keys of a plugin that name lists of files
FileTypes == {"scriptfiles", "shaderfiles", "fontfiles", "scriptoptfiles",
              "ladspafiles", "exefiles"}

\* the hosts the commands run on
HostSystems == {"Linux"}

HostMachines == {"x86_64"}

\* the texts of a plugin that resolve_templates is applied to
TemplateTextsOf(plugin) ==
    {plugin[f] : f \in {"receiving_url", "filename"} \cap DOMAIN plugin}
    \cup UNION {{plugin[t][i] : i \in 1..Len(plugin[t])}
                : t \in FileTypes \cap DOMAIN plugin}

TemplateTextsIn(catalog) ==
    UNION {TemplateTextsOf(catalog[p]) : p \in DOMAIN catalog}

TemplateTexts ==
    TemplateTextsIn(LifecycleCatalog) \cup TemplateTextsIn(BrokenCatalog)
    \cup TemplateTextsIn(LegacyCatalog) \cup TemplateTextsIn(ChoiceCatalog)
    \cup TemplateTextsIn(LegacyLedger) \cup TemplateTextsIn(IncompleteCatalog)
    \cup TemplateTextsIn(ExeCatalog)

\* util.resolve_templates on this host: what it returns for a text depends
\* on the host only, and is kept in resolved_templates
resolve_templates(text) == resolved_templates[text]

\* the order of the keys in the JSON object
KeyOrder == <<"a", "b", "c", "noinst", "nodir", "odd", "win", "u",
              "foo-a", "foo-b", "bar", "nofile", "nourl",
              "e", "n">>

\* the items of seq that are in keys, in the order of seq
RECURSIVE items_from(_, _, _)
items_from(seq, i, keys) ==
    IF i > Len(seq) THEN <<>>
    ELSE (IF seq[i] \in keys THEN <<seq[i]>> ELSE <<>>)
         \o items_from(seq, i + 1, keys)

\* the keys of script_directory in that order
script_directory_keys == items_from(KeyOrder, 1, DOMAIN script_directory)

PluginIds == DOMAIN script_directory

\* what the user can type as NAME|ID: every id, every display name, and a
\* text that is neither
Names == PluginIds \cup {script_directory[p].name : p \in PluginIds}
         \cup {"zeta"}

\* MPlug.installation_dirs, in the order of the dict (__get_dirs__ with
\* MPV_HOME = "mpv" and LADSPA_PATH = "ladspa")
installation_dirs ==
    << <<"scriptfiles", "mpv/scripts">>,
       <<"shaderfiles", "mpv/shaders">>,
       <<"fontfiles", "mpv/fonts">>,
       <<"scriptoptfiles", "mpv/script-opts">>,
       <<"ladspafiles", "ladspa">> >>

\* ask_path: what the user can answer ("" takes the default, ~/bin)
PathAnswers == {"", "/opt/bin"}

ask_path_result(answer) == IF answer = "" THEN "home/bin" ELSE answer

-----------------------------------------------------------------------------
(* The state of one invocation: the MPlug object, the file system it sees, *)
(* what it did so far (log) and how it ended (exc, code).                  *)

Running(m) == m.exc = ""

Log(m, what, arg1, arg2) == [m EXCEPT !.log = Append(@, <<what, arg1, arg2>>)]

\* sys.exit(code)
sys_exit(m, code) == [m EXCEPT !.exc = "SystemExit", !.code = code]

\* an exception nobody catches: a traceback and exit status 1
Raise(m, exception) == [m EXCEPT !.exc = exception, !.code = 1]

\* a regular file below the working directory
file_exists(m, path) ==
    \E d \in DOMAIN m.workdir : \E f \in m.workdir[d] : Join(d, f) = path

\* Path.is_symlink()
is_symlink(m, dst) == dst \in DOMAIN m.targets /\ m.targets[dst].symlink

\* Path.exists(): follows a symlink, so a dangling link does not exist
exists(m, dst) ==
    /\ dst \in DOMAIN m.targets
    /\ m.targets[dst].symlink => file_exists(m, m.targets[dst].target)

\* Path.resolve()
resolve(m, path) == IF is_symlink(m, path) THEN m.targets[path].target ELSE path

\* os.remove(dst)
os_remove(m, dst) ==
    IF dst \notin DOMAIN m.targets THEN Raise(m, "FileNotFoundError")
    ELSE [Log(m, "remove", dst, "") EXCEPT
             !.targets = [p \in DOMAIN m.targets \ {dst} |-> m.targets[p]]]

\* os.symlink(src, dst)
os_symlink(m, src, dst) ==
    IF dst \in DOMAIN m.targets THEN Raise(m, "FileExistsError")
    ELSE [Log(m, "symlink", dst, src) EXCEPT
             !.targets = (dst :> [symlink |-> TRUE, target |-> src]) @@ m.targets]

\* os.makedirs(dstdir)
os_makedirs(m, dstdir) == [m EXCEPT !.dirs = @ \cup {dstdir}]

\* shutil.rmtree(install_dir)
shutil_rmtree(m, install_dir) ==
    IF install_dir \notin DOMAIN m.workdir THEN Raise(m, "FileNotFoundError")
    ELSE [Log(m, "rmtree", install_dir, "") EXCEPT
             !.workdir = [d \in DOMAIN m.workdir \ {install_dir} |-> m.workdir[d]]]

\* interaction.ask_yes_no: "y" or "Y" is yes, any other line is no, and the
\* end of the input (or an interrupt) raises out of input()
ask_yes_no(m, question) ==
    {[Log(m, "ask_yes_no", question, "y") EXCEPT !.yes = TRUE],
     [Log(m, "ask_yes_no", question, "n") EXCEPT !.yes = FALSE],
     Raise(Log(m, "ask_yes_no", question, "EOF"), "EOFError")}

-----------------------------------------------------------------------------
(* Symlink installer and uninstaller *)

\* install_link with the os.symlink call forgotten
install_link_never(m, src, dst) == m

\* __install_files__, lines 376-381: skip a link that is right, else link
install_link(m, src, dst) ==
    IF is_symlink(m, dst) /\ resolve(m, dst) = resolve(m, src) THEN m
    ELSE LET m1 == os_symlink(m, src, dst)
         IN IF Running(m1) THEN [m1 EXCEPT !.files = Append(@, dst)] ELSE m1

\* MPlug.__install_files__: one pass of the loop over filelist
install_file(m, srcdir, entry, dstdir) ==
    LET file == resolve_templates(entry)
        src == Join(srcdir, file)
        filename == PathName(file)
        dst == Join(dstdir, filename)
    IN IF ~file_exists(m, src)
       THEN {sys_exit(Log(m, "error", "missing source", src), 14)}
       ELSE IF exists(m, dst) /\ ~is_symlink(m, dst)
       THEN {sys_exit(Log(m, "error", "not a symlink", dst), 15)}
       ELSE IF is_symlink(m, dst) /\ resolve(m, dst) # resolve(m, src)
       THEN {IF ~Running(m1) THEN m1
             ELSE IF m1.yes
             THEN LET m2 == os_remove(m1, dst)
                  IN IF Running(m2) THEN install_link(m2, src, dst) ELSE m2
             ELSE sys_exit(m1, 15)
             : m1 \in ask_yes_no(m, "Overwrite file?")}
       ELSE {install_link(m, src, dst)}

RECURSIVE install_files_from(_, _, _, _, _)
install_files_from(ms, srcdir, filelist, i, dstdir) ==
    IF i > Len(filelist) THEN ms
    ELSE install_files_from(
             UNION {IF Running(m)
                    THEN install_file(m, srcdir, filelist[i], dstdir)
                    ELSE {m} : m \in ms},
             srcdir, filelist, i + 1, dstdir)

\* MPlug.__install_files__; the list it returns is m.files
install_files(m, srcdir, filelist, dstdir) ==
    LET m0 == IF dstdir \notin m.dirs THEN os_makedirs(m, dstdir) ELSE m
    IN install_files_from({[m0 EXCEPT !.files = <<>>]}, srcdir, filelist, 1,
                          dstdir)

\* uninstall_file without the test that dst is a symlink
uninstall_file_any_entry(m, entry, folder) ==
    LET dst == Join(folder, PathName(resolve_templates(entry)))
    IN IF ~exists(m, dst) THEN m ELSE os_remove(m, dst)

\* uninstall_file with the os.remove call forgotten
uninstall_file_keeps_link(m, entry, folder) == m

\* MPlug.__uninstall_files__: one pass of the loop over filelist
uninstall_file(m, entry, folder) ==
    LET file == resolve_templates(entry)
        filename == PathName(file)
        dst == Join(folder, filename)
    IN IF ~exists(m, dst) THEN m
       ELSE IF ~is_symlink(m, dst)
       THEN sys_exit(Log(m, "critical", "not a symlink", dst), 12)
       ELSE os_remove(m, dst)

RECURSIVE uninstall_files_from(_, _, _, _)
uninstall_files_from(m, filelist, i, folder) ==
    IF i > Len(filelist) \/ ~Running(m) THEN m
    ELSE uninstall_files_from(uninstall_file(m, filelist[i], folder),
                              filelist, i + 1, folder)

\* MPlug.__uninstall_files__
uninstall_files(m, filelist, folder) ==
    uninstall_files_from(m, filelist, 1, folder)

-----------------------------------------------------------------------------
(* Fetch strategies (download.py).  What the remote side delivers is not   *)
(* under the program's control: any tree that holds the files the catalog  *)
(* lists for the directory, except for at most MaxMissing of them.         *)

ListedFiles(plugin) ==
    UNION {{resolve_templates(plugin[t][i]) : i \in 1..Len(plugin[t])}
           : t \in FileTypes \cap DOMAIN plugin}

RemoteFiles(directory) ==
    UNION {ListedFiles(script_directory[p])
           : p \in {q \in PluginIds :
                      Get(script_directory[q], "install_dir", "") = directory}}

RemoteTrees(directory) ==
    {RemoteFiles(directory) \ missing :
        missing \in {s \in SUBSET RemoteFiles(directory) :
                        Cardinality(s) <= MaxMissing}}

WithTree(m, directory, tree) ==
    [m EXCEPT !.workdir = (directory :> tree) @@ m.workdir]

\* download.git_clone_or_pull
git_clone_or_pull(m, repourl, gitdir) ==
    LET how == IF gitdir \in DOMAIN m.workdir THEN "git pull" ELSE "git clone"
    IN {Raise(Log(m, how, gitdir, "failed"), "GitCommandError")}
       \cup {WithTree(Log(m, how, gitdir, repourl), gitdir, tree)
              : tree \in RemoteTrees(gitdir)}

\* download.git_pull
git_pull(m, gitdir) ==
    IF gitdir \notin DOMAIN m.workdir
    THEN {Raise(m, "NoSuchPathError")}
    ELSE {Raise(Log(m, "git pull", gitdir, "failed"), "GitCommandError")}
         \cup {WithTree(Log(m, "git pull", gitdir, ""), gitdir, tree)
                : tree \in RemoteTrees(gitdir)}

\* download.download_tar: extractall adds to what the directory holds
download_tar(m, url, directory) ==
    {Raise(Log(m, "download_tar", directory, "failed"), "ConnectionError")}
    \cup {WithTree(Log(m, "download_tar", directory, url), directory,
                    Get(m.workdir, directory, {}) \cup tree)
           : tree \in RemoteTrees(directory)}

\* download.download_file: open(filename, "wb") needs the directory
download_file(m, url, directory, filename) ==
    {Raise(Log(m, "download_file", Join(directory, filename), "failed"),
           "ConnectionError"),
     IF directory \notin DOMAIN m.workdir
     THEN Raise(Log(m, "download_file", Join(directory, filename), url),
                "FileNotFoundError")
     ELSE WithTree(Log(m, "download_file", Join(directory, filename), url),
                   directory, m.workdir[directory] \cup {filename})}

-----------------------------------------------------------------------------
(* interaction.py *)

\* str.title() of the names platform.system() returns
title(system) ==
    CASE system = "Linux" -> "Linux"
      [] system = "Windows" -> "Windows"
      [] system = "Darwin" -> "Darwin"
      [] OTHER -> system

InSeq(x, seq) == \E i \in 1..Len(seq) : seq[i] = x

\* check_os that asks whenever the plugin lists operating systems
check_os_asks_if_listed(m, supported) ==
    IF supported = <<>> THEN {[m EXCEPT !.yes = TRUE]}
    ELSE ask_yes_no(m, "Warning: This plugin works only on ... Continue?")

\* interaction.check_os; the answer is m.yes
check_os(m, supported) ==
    IF supported = <<>> THEN {[m EXCEPT !.yes = TRUE]}
    ELSE IF InSeq(title(platform_system), supported)
    THEN {[m EXCEPT !.yes = TRUE]}
    ELSE ask_yes_no(m, "Warning: This plugin works only on ... Continue?")

\* interaction.ask_path; the path is m.path
ask_path(m, question) ==
    {[Log(m, "ask_path", question, answer) EXCEPT
         !.path = ask_path_result(answer)] : answer \in PathAnswers}
    \cup {Raise(Log(m, "ask_path", question, "EOF"), "EOFError")}

\* what the user can type when asked for a number
NumAnswers == {"0", "1", "2", "-1", "x", "EOF"}

\* int(answer); -2 stands for the ValueError
int(answer) ==
    CASE answer = "0" -> 0
      [] answer = "1" -> 1
      [] answer = "2" -> 2
      [] answer = "-1" -> -1
      [] OTHER -> -2

\* str(i) of the numbers that are printed
str(i) ==
    CASE i = 0 -> "0"
      [] i = 1 -> "1"
      [] i = 2 -> "2"
      [] i = 3 -> "3"
      [] OTHER -> "4"

\* ask_num, lines 33-36: the numbered list that is printed, from the
\* option i on
RECURSIVE print_options(_, _, _)
print_options(m, options, i) ==
    IF i > Len(options) THEN m
    ELSE print_options(Log(m, "print", "[" \o str(i - 1) \o "]", options[i]),
                       options, i + 1)

\* ask_num that counts the options from one
ask_num_from_one(m, question, options) ==
    {LET num == int(answer)
         valid == answer # "EOF" /\ num >= 1 /\ num <= Len(options)
     IN [Log(print_options(m, options, 1), "ask_num", question, answer) EXCEPT
            !.choice = IF valid THEN options[num] ELSE ""]
     : answer \in NumAnswers}

\* interaction.ask_num; the option is m.choice, "" for None
ask_num(m, question, options) ==
    {LET num == int(answer)
         valid == answer # "EOF" /\ num >= 0 /\ num < Len(options)
     IN [Log(print_options(m, options, 1), "ask_num", question, answer) EXCEPT
            !.choice = IF valid THEN options[num + 1] ELSE ""]
     : answer \in NumAnswers}

-----------------------------------------------------------------------------
(* class MPlug (mplug.py) *)

\* datetime.now().isoformat(): time is not modelled
Now == "now"

\* os.getenv("LADSPA_PATH"), "" for None
LADSPA_PATH == "ladspa"

\* install, the loop over installation_dirs
RECURSIVE install_categories(_, _, _, _)
install_categories(ms, install_dir, plugin, i) ==
    IF i > Len(installation_dirs) THEN ms
    ELSE install_categories(
             UNION {IF Running(m)
                    THEN install_files(m, install_dir,
                                       Get(plugin, installation_dirs[i][1],
                                           <<>>),
                                       installation_dirs[i][2])
                    ELSE {m} : m \in ms},
             install_dir, plugin, i + 1)

\* util.make_files_executable: chmod of what the links point to
make_files_executable(m, filelist) ==
    IF lower(platform_system) = "windows" \/ filelist = <<>> THEN m
    ELSE Log(m, "chmod", "S_IEXEC", "")

\* install_fetch that clones whatever the method is
install_fetch_always_git(m, plugin_id, plugin, url, install_dir) ==
    git_clone_or_pull(m, url, install_dir)

\* install, lines 216-230: the fetch by installation method
install_fetch(m, plugin_id, plugin, url, install_dir) ==
    IF plugin.install = "git" THEN git_clone_or_pull(m, url, install_dir)
    ELSE IF plugin.install = "url"
    THEN IF "filename" \notin DOMAIN plugin THEN {Raise(m, "KeyError")}
         ELSE download_file(m, url, install_dir, plugin.filename)
    ELSE IF plugin.install = "tar" THEN download_tar(m, url, install_dir)
    ELSE {sys_exit(Log(m, "error", "unknown installation method", plugin_id),
                   5)}

\* install, lines 236-240
ladspa_warning(m, plugin) ==
    IF "ladspafiles" \in DOMAIN plugin /\ LADSPA_PATH = ""
    THEN Log(m, "warning", "Set the environment variable LADSPA_PATH", "")
    ELSE m

\* install, lines 241-248: the executables
install_exefiles(m, install_dir, plugin) ==
    IF "exefiles" \notin DOMAIN plugin THEN {m}
    ELSE UNION {IF ~Running(m1) THEN {m1}
                ELSE {IF Running(m2) THEN make_files_executable(m2, m2.files)
                      ELSE m2
                      : m2 \in install_files(m1, install_dir, plugin.exefiles,
                                             m1.path)}
                : m1 \in ask_path(m, "Where to put executable files?")}

\* install_record with the assignment to installed_plugins forgotten
install_record_not_stored(m, plugin_id, plugin) ==
    Log(m, "ledger set", plugin_id, "active")

\* install_record that keeps the record of a plugin that has one
install_record_keeps_existing(m, plugin_id, plugin) ==
    LET record == ("install_date" :> Now) @@ ("state" :> "active") @@ plugin
    IN [Log(m, "ledger set", plugin_id, "active") EXCEPT
           !.installed_plugins =
               [p \in DOMAIN m.installed_plugins \cup {plugin_id} |->
                   IF p \in DOMAIN m.installed_plugins
                   THEN m.installed_plugins[p] ELSE record]]

\* install, lines 248-253: the record that enters the Ledger
install_record(m, plugin_id, plugin) ==
    LET exedir == IF "exefiles" \in DOMAIN plugin
                  THEN ("exedir" :> m.path) ELSE <<>>
        record == ("install_date" :> Now) @@ ("state" :> "active")
                  @@ exedir @@ plugin
    IN [Log(m, "ledger set", plugin_id, "active") EXCEPT
           !.installed_plugins =
               [p \in DOMAIN m.installed_plugins \cup {plugin_id} |->
                   IF p = plugin_id THEN record ELSE m.installed_plugins[p]]]

\* install_links_and_record with the Ledger written before the files are
\* linked
install_record_then_links(m, plugin_id, plugin, install_dir) ==
    UNION {IF ~Running(m3) THEN {m3}
           ELSE install_exefiles(ladspa_warning(m3, plugin), install_dir,
                                 plugin)
           : m3 \in install_categories({install_record(m, plugin_id, plugin)},
                                       install_dir, plugin, 1)}

\* install, lines 231-253: link the files, then enter the Ledger
install_links_and_record(m, plugin_id, plugin, install_dir) ==
    UNION {IF ~Running(m3) THEN {m3}
           ELSE {IF ~Running(m4) THEN m4
                 ELSE install_record(
                          IF "install-notes" \in DOMAIN plugin
                          THEN Log(m4, "print", plugin["install-notes"], "")
                          ELSE m4,
                          plugin_id, plugin)
                 : m4 \in install_exefiles(ladspa_warning(m3, plugin),
                                           install_dir, plugin)}
           : m3 \in install_categories({m}, install_dir, plugin, 1)}

\* install, lines 210-253: after the question about the operating system
install_checked(m, plugin_id, plugin) ==
    IF "install_dir" \notin DOMAIN plugin
    THEN {sys_exit(Log(m, "error", "Missing field", "install_dir"), 13)}
    ELSE IF "receiving_url" \notin DOMAIN plugin
    THEN {sys_exit(Log(m, "error", "Missing field", "receiving_url"), 13)}
    ELSE LET install_dir == plugin.install_dir
             url == resolve_templates(plugin.receiving_url)
         IN UNION {IF Running(m2)
                   THEN install_links_and_record(m2, plugin_id, plugin,
                                                 install_dir)
                   ELSE {m2}
                   : m2 \in install_fetch(m, plugin_id, plugin, url,
                                          install_dir)}

\* install with the question about the operating system asked before the
\* test for the install field
install_os_first(m, plugin_id) ==
    LET plugin == script_directory[plugin_id]
    IN UNION {IF ~Running(m1) THEN {m1}
              ELSE IF ~m1.yes THEN {sys_exit(m1, 0)}
              ELSE IF "install" \notin DOMAIN plugin
              THEN {sys_exit(Log(m1, "error", "No installation method",
                                 plugin_id), 4)}
              ELSE install_checked(m1, plugin_id, plugin)
              : m1 \in check_os(m, Get(plugin, "os", <<>>))}

\* MPlug.install
install(m, plugin_id) ==
    LET plugin == script_directory[plugin_id]
    IN IF "install" \notin DOMAIN plugin
       THEN {sys_exit(Log(m, "error", "No installation method", plugin_id), 4)}
       ELSE UNION {IF ~Running(m1) THEN {m1}
                   ELSE IF ~m1.yes THEN {sys_exit(m1, 0)}
                   ELSE install_checked(m1, plugin_id, plugin)
                   : m1 \in check_os(m, Get(plugin, "os", <<>>))}

\* MPlug.__plugin_id_by_name__
plugin_id_by_name(pluginname) ==
    items_from(script_directory_keys, 1,
               {key \in DOMAIN script_directory :
                   script_directory[key].name = pluginname})

\* __install_from_list__ that takes the first plugin when the user gave no
\* valid number
install_from_list_default(m, plugins) ==
    IF Len(plugins) = 0
    THEN {sys_exit(Log(m, "error", "No matching plugins found.", ""), 3)}
    ELSE IF Len(plugins) = 1
    THEN UNION {IF ~Running(m1) THEN {m1}
                ELSE IF m1.yes THEN install(m1, plugins[1])
                ELSE {sys_exit(m1, 0)}
                : m1 \in ask_yes_no(m, "Install " \o plugins[1] \o "?")}
    ELSE UNION {IF ~Running(m1) THEN {m1}
                ELSE IF m1.choice # "" THEN install(m1, m1.choice)
                ELSE install(m1, plugins[1])
                : m1 \in ask_num(m, "Found multiple plugins:", plugins)}

\* MPlug.__install_from_list__
install_from_list(m, plugins) ==
    IF Len(plugins) = 0
    THEN {sys_exit(Log(m, "error", "No matching plugins found.", ""), 3)}
    ELSE IF Len(plugins) = 1
    THEN UNION {IF ~Running(m1) THEN {m1}
                ELSE IF m1.yes THEN install(m1, plugins[1])
                ELSE {sys_exit(m1, 0)}
                : m1 \in ask_yes_no(m, "Install " \o plugins[1] \o "?")}
    ELSE UNION {IF ~Running(m1) THEN {m1}
                ELSE IF m1.choice # "" THEN install(m1, m1.choice)
                ELSE {sys_exit(m1, 0)}
                : m1 \in ask_num(m, "Found multiple plugins:", plugins)}

\* install_by_name that looks for the display name before the key
install_by_name_name_first(m, pluginname) ==
    IF plugin_id_by_name(pluginname) # <<>>
    THEN install_from_list(m, plugin_id_by_name(pluginname))
    ELSE IF pluginname \in DOMAIN script_directory
    THEN install(m, pluginname)
    ELSE install_from_list(m, <<>>)

\* MPlug.install_by_name
install_by_name(m, pluginname) ==
    IF pluginname \in DOMAIN script_directory THEN install(m, pluginname)
    ELSE install_from_list(m, plugin_id_by_name(pluginname))

ascii_uppercase == "ABCDEFGHIJKLMNOPQRSTUVWXYZ"

ascii_lowercase == "abcdefghijklmnopqrstuvwxyz"

\* str.lower(), character by character
RECURSIVE lower_from(_, _)
lower_from(text, i) ==
    IF i > Len(text) THEN ""
    ELSE LET c == SubSeq(text, i, i)
             up == {k \in 1..26 : SubSeq(ascii_uppercase, k, k) = c}
         IN (IF up = {} THEN c
             ELSE LET k == CHOOSE k \in up : TRUE
                  IN SubSeq(ascii_lowercase, k, k))
            \o lower_from(text, i + 1)

lower_text(text) == lower_from(text, 1)

\* search, lines 157-166: the ids that match, in the order of the catalog
search_plugins(seach_string) ==
    items_from(script_directory_keys, 1,
               {key \in DOMAIN script_directory :
                   \/ Contains(Get(script_directory[key], "name", ""),
                               lower_text(seach_string))
                   \/ Contains(lower_text(Get(script_directory[key], "desc",
                                              "")),
                               lower_text(seach_string))})

\* MPlug.search
search(m, seach_string) == install_from_list(m, search_plugins(seach_string))

\* uninstall, the loop over installation_dirs
RECURSIVE uninstall_categories(_, _, _)
uninstall_categories(m, plugin, i) ==
    IF i > Len(installation_dirs) \/ ~Running(m) THEN m
    ELSE uninstall_categories(
             uninstall_files(m, Get(plugin, installation_dirs[i][1], <<>>),
                             installation_dirs[i][2]),
             plugin, i + 1)

\* uninstall, lines 109-116: the executables
uninstall_exefiles(m, plugin) ==
    LET exefiles == Get(plugin, "exefiles", <<>>)
    IN IF exefiles = <<>> THEN m
       ELSE IF Get(plugin, "exedir", "") # ""
       THEN uninstall_files(m, exefiles, plugin.exedir)
       ELSE Log(m, "error", "Can't uninstall files: unknown location.", "")

\* uninstall_record that deletes the directory also when remove is false
uninstall_record_always_rmtree(m, plugin_id, plugin, remove) ==
    LET m1 == shutil_rmtree(m, plugin.install_dir)
    IN IF ~Running(m1) THEN m1
       ELSE IF remove
       THEN [Log(m1, "ledger del", plugin_id, "") EXCEPT
                !.installed_plugins =
                    [p \in DOMAIN m1.installed_plugins \ {plugin_id} |->
                        m1.installed_plugins[p]]]
       ELSE [Log(m1, "ledger set", plugin_id, "disabled") EXCEPT
                !.installed_plugins[plugin_id].state = "disabled"]

\* uninstall, lines 117-123: the directory and the Ledger
uninstall_record(m, plugin_id, plugin, remove) ==
    LET m1 == IF remove THEN shutil_rmtree(m, plugin.install_dir) ELSE m
    IN IF ~Running(m1) THEN m1
       ELSE IF remove
       THEN [Log(m1, "ledger del", plugin_id, "") EXCEPT
                !.installed_plugins =
                    [p \in DOMAIN m1.installed_plugins \ {plugin_id} |->
                        m1.installed_plugins[p]]]
       ELSE [Log(m1, "ledger set", plugin_id, "disabled") EXCEPT
                !.installed_plugins[plugin_id].state = "disabled"]

\* uninstall with the directory and the Ledger handled before the links
uninstall_record_first(m, plugin_id, remove) ==
    IF plugin_id \notin DOMAIN m.installed_plugins THEN Raise(m, "KeyError")
    ELSE LET plugin == m.installed_plugins[plugin_id]
             m0 == uninstall_record(Log(m, "debug", "Remove links of",
                                        plugin_id),
                                    plugin_id, plugin, remove)
             m1 == IF Running(m0) THEN uninstall_categories(m0, plugin, 1)
                   ELSE m0
         IN IF Running(m1) THEN uninstall_exefiles(m1, plugin) ELSE m1

\* MPlug.uninstall
uninstall(m, plugin_id, remove) ==
    IF plugin_id \notin DOMAIN m.installed_plugins THEN Raise(m, "KeyError")
    ELSE LET plugin == m.installed_plugins[plugin_id]
             m0 == Log(m, "debug", "Remove links of", plugin_id)
             m1 == uninstall_categories(m0, plugin, 1)
             m2 == IF Running(m1) THEN uninstall_exefiles(m1, plugin) ELSE m1
         IN IF Running(m2) THEN uninstall_record(m2, plugin_id, plugin, remove)
            ELSE m2

\* MPlug.uninstall_by_name
uninstall_by_name(m, pluginname, remove) ==
    IF pluginname \in DOMAIN script_directory
    THEN {uninstall(m, pluginname, TRUE)}
    ELSE LET potential_plugins == plugin_id_by_name(pluginname)
         IN IF Len(potential_plugins) = 0
            THEN {sys_exit(Log(m, "error", "Not installed", pluginname), 10)}
            ELSE IF Len(potential_plugins) > 1
            THEN {sys_exit(Log(m, "error", "Multiple matching plugins found",
                               pluginname), 10)}
            ELSE {IF ~Running(m1) THEN m1
                  ELSE IF m1.yes
                  THEN uninstall(m1, potential_plugins[1], remove)
                  ELSE sys_exit(m1, 0)
                  : m1 \in ask_yes_no(m, "Uninstall plugin "
                                          \o potential_plugins[1])}

\* MPlug.update: the catalog repository is cloned or pulled; what it holds
\* stays script_directory
update(m) == {Raise(Log(m, "update", "mpv_script_dir", "failed"),
                    "GitCommandError"),
              Log(m, "update", "mpv_script_dir", "")}

\* upgrade_plugin that marks the records active once the fetch is done
upgrade_plugin_activates(m, plugin) ==
    IF {"name", "install_dir", "receiving_url", "install"} \ DOMAIN plugin # {}
    THEN {Raise(m, "KeyError")}
    ELSE LET m1 == Log(m, "info", "Updating plugin", plugin.name)
             install_dir == plugin.install_dir
             url == resolve_templates(plugin.receiving_url)
             fetched ==
                 IF plugin.install = "git" THEN git_pull(m1, install_dir)
                 ELSE IF plugin.install = "tar"
                 THEN download_tar(m1, url, install_dir)
                 ELSE IF plugin.install = "url"
                 THEN IF "filename" \notin DOMAIN plugin
                      THEN {Raise(m1, "KeyError")}
                      ELSE download_file(m1, url, install_dir,
                                         resolve_templates(plugin.filename))
                 ELSE {Log(m1, "error", "Cannot upgrade", plugin.install_dir)}
         IN {IF Running(m2)
             THEN [m2 EXCEPT !.installed_plugins =
                      [p \in DOMAIN m2.installed_plugins |->
                          [m2.installed_plugins[p] EXCEPT !.state = "active"]]]
             ELSE m2 : m2 \in fetched}

\* upgrade, the body of the loop for one Ledger record
upgrade_plugin(m, plugin) ==
    IF {"name", "install_dir", "receiving_url", "install"} \ DOMAIN plugin # {}
    THEN {Raise(m, "KeyError")}
    ELSE LET m1 == Log(m, "info", "Updating plugin", plugin.name)
             install_dir == plugin.install_dir
             url == resolve_templates(plugin.receiving_url)
         IN IF plugin.install = "git" THEN git_pull(m1, install_dir)
            ELSE IF plugin.install = "tar"
            THEN download_tar(m1, url, install_dir)
            ELSE IF plugin.install = "url"
            THEN IF "filename" \notin DOMAIN plugin
                 THEN {Raise(m1, "KeyError")}
                 ELSE download_file(m1, url, install_dir,
                                    resolve_templates(plugin.filename))
            ELSE {Log(m1, "error", "Cannot upgrade", plugin.install_dir)}

\* the orders in which a dict with these keys can list them: the order in
\* which the keys were inserted, which the Ledger as a function does not keep
KeyOrders(keys) ==
    {order \in [1..Cardinality(keys) -> keys] :
        \A i, j \in 1..Cardinality(keys) : order[i] = order[j] => i = j}

\* upgrade, the loop over installed_plugins.values()
RECURSIVE upgrade_from(_, _, _)
upgrade_from(ms, ids, i) ==
    IF i > Len(ids) THEN ms
    ELSE upgrade_from(
             UNION {IF Running(m)
                    THEN upgrade_plugin(m, m.installed_plugins[ids[i]])
                    ELSE {m} : m \in ms},
             ids, i + 1)

\* MPlug.upgrade
upgrade(m) ==
    UNION {IF ~Running(m1) THEN {m1}
           ELSE UNION {upgrade_from({m1}, ids, 1)
                       : ids \in KeyOrders(DOMAIN m1.installed_plugins)}
           : m1 \in update(m)}

\* MPlug.list_installed: the lines it prints are m.out
list_installed(m) ==
    [m EXCEPT !.out =
        {IF Get(m.installed_plugins[p], "state", "") = "disabled"
         THEN p \o " [DISABLED]" ELSE p : p \in DOMAIN m.installed_plugins}]

\* the Ledger with no record
NoPlugins == [p \in {} |-> [state |-> "active"]]

\* load_state that takes a state file that is not JSON for an empty one
load_state_ignores_corrupt(m) ==
    [Log(m, "json.load", "installed_plugins", m.statefile.kind) EXCEPT
        !.installed_plugins = IF m.statefile.kind = "json"
                              THEN m.statefile.data ELSE NoPlugins]

\* MPlug.__init__, lines 73-84: the Ledger is read from the state file
load_state(m) ==
    LET m1 == Log(m, "json.load", "installed_plugins", m.statefile.kind)
    IN IF m.statefile.kind = "missing"
       THEN [m1 EXCEPT !.installed_plugins = NoPlugins]
       ELSE IF m.statefile.kind = "json"
       THEN [m1 EXCEPT !.installed_plugins = m.statefile.data]
       ELSE sys_exit(Log(m1, "error", "Failed to load mplug file", ""), 11)

\* save_state_to_disk that keeps the records the state file has and the
\* invocation does not
save_state_to_disk_merging(m) ==
    [Log(m, "json.dump", "installed_plugins", "") EXCEPT
        !.statefile =
            [kind |-> "json",
             data |-> m.installed_plugins
                      @@ (IF m.statefile.kind = "json" THEN m.statefile.data
                          ELSE NoPlugins)]]

\* MPlug.save_state_to_disk
save_state_to_disk(m) ==
    [Log(m, "json.dump", "installed_plugins", "") EXCEPT
        !.statefile = [kind |-> "json", data |-> m.installed_plugins]]

-----------------------------------------------------------------------------
(* __init__.py *)

\* main, lines 64-81: the operation
operation_of(m, operation, name) ==
    CASE operation = "install" -> install_by_name(m, name)
      [] operation = "uninstall" -> uninstall_by_name(m, name, TRUE)
      [] operation = "search" -> search(m, name)
      [] operation = "disable" -> uninstall_by_name(m, name, FALSE)
      [] operation = "update" -> update(m)
      [] operation = "upgrade" -> upgrade(m)
      [] operation = "list-installed" -> {list_installed(m)}
      [] OTHER -> {m}

\* main with the Ledger written back however the operation ended
main_saves_always(operation, name) ==
    LET m0 == [installed_plugins |-> NoPlugins, statefile |-> statefile,
               targets |-> targets, dirs |-> dirs, workdir |-> workdir,
               log |-> <<>>, exc |-> "", code |-> 0, out |-> {},
               yes |-> FALSE, files |-> <<>>, path |-> "", choice |-> ""]
        m1 == load_state(m0)
    IN IF ~Running(m1) THEN {m1}
       ELSE {[save_state_to_disk(m) EXCEPT !.exc = m.exc, !.code = m.code]
             : m \in operation_of(m1, operation, name)}

\* main: the outcomes of one invocation in the current state
main(operation, name) ==
    LET m0 == [installed_plugins |-> NoPlugins, statefile |-> statefile,
               targets |-> targets, dirs |-> dirs, workdir |-> workdir,
               log |-> <<>>, exc |-> "", code |-> 0, out |-> {},
               yes |-> FALSE, files |-> <<>>, path |-> "", choice |-> ""]
        m1 == load_state(m0)
    IN IF ~Running(m1) THEN {m1}
       ELSE {IF Running(m) THEN save_state_to_disk(m) ELSE m
             : m \in operation_of(m1, operation, name)}

-----------------------------------------------------------------------------
(* The state machine: one step is one invocation of the command *)

NoTargets == [p \in {} |-> [symlink |-> FALSE, target |-> ""]]

NoDirectories == [d \in {} |-> {}]

\* paths where the user may put a file of their own
ForeignPaths == {"mpv/scripts/x.lua", "mpv/scripts/y.lua"}

ForeignFiles(t) == {p \in DOMAIN t : ~t[p].symlink}

\* what the search command is given
SearchStrings == {"Foo", "bar", "HELPER"}

\* no method was called directly
NoCall == [method |-> "", filelist |-> <<>>, before |-> NoTargets,
           exc |-> "", code |-> 0, log |-> <<>>, files |-> <<>>]

\* the state before the first command, for a catalog out of catalogs
InitWith(catalogs) ==
    /\ call = [NoCall EXCEPT !.method = "main"]
    /\ platform_system \in HostSystems
    /\ platform_machine \in HostMachines
    /\ resolved_templates =
           [text \in TemplateTexts |->
               resolve_templates_on(platform_system, platform_machine, text)]
    /\ script_directory \in catalogs
    /\ statefile \in IF script_directory = LegacyCatalog
                     THEN {[kind |-> "json", data |-> LegacyLedger],
                           [kind |-> "corrupt", data |-> NoPlugins]}
                     ELSE {[kind |-> "missing", data |-> NoPlugins]}
    /\ installed_plugins = NoPlugins
    /\ targets = NoTargets
    /\ dirs = {}
    /\ workdir = IF script_directory = LegacyCatalog
                 THEN [d \in {"u", "old"} |->
                          IF d = "u" THEN {"u-x64.lua"} ELSE {}]
                 ELSE NoDirectories
    /\ last = [operation |-> "", name |-> "", exc |-> "", code |-> 0,
               log |-> <<>>, out |-> {}]

Init == InitWith(Catalogs)

Invocation(operation, name) ==
    \E m \in main(operation, name) :
        /\ installed_plugins' = m.installed_plugins
        /\ statefile' = m.statefile
        /\ targets' = m.targets
        /\ dirs' = m.dirs
        /\ workdir' = m.workdir
        /\ last' = [operation |-> operation, name |-> name, exc |-> m.exc,
                    code |-> m.code, log |-> m.log, out |-> m.out]
        /\ UNCHANGED <<platform_system, platform_machine, resolved_templates,
                       call, script_directory>>

\* between two invocations the user puts a regular file into a target
\* directory, in place of whatever was there
UserPutsFile ==
    /\ Cardinality(ForeignFiles(targets)) < MaxForeign
    /\ \E p \in ForeignPaths \ ForeignFiles(targets) :
           targets' = (p :> [symlink |-> FALSE, target |-> ""]) @@ targets
    /\ last' = [operation |-> "(user)", name |-> "", exc |-> "", code |-> 0,
                log |-> <<>>, out |-> {}]
    /\ UNCHANGED <<platform_system, platform_machine, resolved_templates,
                   call, script_directory, statefile, installed_plugins, dirs,
                   workdir>>

Install == \E name \in Names : Invocation("install", name)

Uninstall == \E name \in Names : Invocation("uninstall", name)

Disable == \E name \in Names : Invocation("disable", name)

Search == \E seach_string \in SearchStrings : Invocation("search", seach_string)

Upgrade == Invocation("upgrade", "")

ListInstalled == Invocation("list-installed", "")

Next ==
    \/ Install
    \/ Uninstall
    \/ Disable
    \/ Upgrade
    \/ ListInstalled
    \/ UserPutsFile

Spec == Init /\ [][Next]_vars

\* the commands that take a name or a search text, on the catalog in which
\* two plugins share a display name
InitSearch == InitWith({ChoiceCatalog})

NextSearch ==
    \/ Install
    \/ Search
    \/ Uninstall

SpecSearch == InitSearch /\ [][NextSearch]_vars

-----------------------------------------------------------------------------
(* __install_files__ and __uninstall_files__ called directly, as the tests *)
(* of the repository call them: the files of one source directory are      *)
(* linked into, and unlinked from, one target directory that holds         *)
(* anything beforehand.                                                    *)

\* the arguments of the calls
SrcDir == "a"

DstDir == "mpv/scripts"

FileLists == {<<"x.lua">>, <<"x.lua", "y.lua">>, <<"x.lua", "sub/x.lua">>}

\* what a path of the target directory can hold beforehand: a file of the
\* user, the link that install makes for x.lua, a link to another file, or
\* a link to a file that is no longer there
PriorEntries ==
    {[symlink |-> FALSE, target |-> ""],
     [symlink |-> TRUE, target |-> "a/x.lua"],
     [symlink |-> TRUE, target |-> "b/x.lua"],
     [symlink |-> TRUE, target |-> "gone/x.lua"]}

PriorPaths == {"mpv/scripts/x.lua", "mpv/scripts/other.lua"}

InitFiles ==
    /\ platform_system \in HostSystems
    /\ platform_machine \in HostMachines
    /\ resolved_templates =
           [text \in TemplateTexts |->
               resolve_templates_on(platform_system, platform_machine, text)]
    /\ script_directory = LifecycleCatalog
    /\ statefile = [kind |-> "missing", data |-> NoPlugins]
    /\ installed_plugins = NoPlugins
    /\ \E paths \in SUBSET PriorPaths : targets \in [paths -> PriorEntries]
    /\ dirs = IF DOMAIN targets = {} THEN {} ELSE {DstDir}
    /\ workdir = [d \in {"a", "b"} |->
                     IF d = "a" THEN {"x.lua", "y.lua", "sub/x.lua"}
                     ELSE {"x.lua"}]
    /\ last = [operation |-> "", name |-> "", exc |-> "", code |-> 0,
               log |-> <<>>, out |-> {}]
    /\ call = [NoCall EXCEPT !.method = "main"] @@ [prev |-> NoCall]

\* the object a method is called on
Self ==
    [installed_plugins |-> installed_plugins, statefile |-> statefile,
     targets |-> targets, dirs |-> dirs, workdir |-> workdir,
     log |-> <<>>, exc |-> "", code |-> 0, out |-> {},
     yes |-> FALSE, files |-> <<>>, path |-> "", choice |-> ""]

\* what a call leaves behind
Called(method, filelist, m) ==
    /\ targets' = m.targets
    /\ dirs' = m.dirs
    /\ call' = [method |-> method, filelist |-> filelist, before |-> targets,
                exc |-> m.exc, code |-> m.code, log |-> m.log,
                files |-> m.files,
                prev |-> [f \in DOMAIN NoCall |-> call[f]]]
    /\ UNCHANGED <<platform_system, platform_machine, resolved_templates,
                   script_directory, statefile, installed_plugins, workdir,
                   last>>

InstallFiles ==
    \E filelist \in FileLists :
        \E m \in install_files(Self, SrcDir, filelist, DstDir) :
            Called("__install_files__", filelist, m)

UninstallFiles ==
    \E filelist \in FileLists :
        Called("__uninstall_files__", filelist,
               uninstall_files([Self EXCEPT !.files = <<>>], filelist, DstDir))

NextFiles ==
    \/ InstallFiles
    \/ UninstallFiles

SpecFiles == InitFiles /\ [][NextFiles]_vars

-----------------------------------------------------------------------------
(* resolve_templates called directly, as test_util.py calls it: on every   *)
(* host of the test, for texts put together from placeholders, plain text  *)
(* and pieces of placeholders.                                             *)

\* a text has at most this many pieces
MaxPieces == 3

Placeholders == {"{{os}}", "{{arch}}", "{{arch-short}}",
                 "{{shared-lib-ext}}", "{{executable-ext}}"}

PlainPieces == {"f", "."}

BracePieces == {"{{", "shared-lib-ext}}"}

Pieces == Placeholders \cup PlainPieces \cup BracePieces

PieceSeqs == UNION {[1..n -> Pieces] : n \in 0..MaxPieces}

\* "".join(pieces)
RECURSIVE Concat(_, _)
Concat(pieces, i) ==
    IF i > Len(pieces) THEN "" ELSE pieces[i] \o Concat(pieces, i + 1)

\* the hosts of test_resolve_templates_windows
TestSystems == {"Windows", "Linux", "Darwin"}

TestMachines == {"x86_64", "x86_32"}

InitTemplates ==
    /\ platform_system \in TestSystems
    /\ platform_machine \in TestMachines
    /\ resolved_templates =
           [text \in TemplateTexts |->
               resolve_templates_on(platform_system, platform_machine, text)]
    /\ script_directory = LifecycleCatalog
    /\ statefile = [kind |-> "missing", data |-> NoPlugins]
    /\ installed_plugins = NoPlugins
    /\ targets = NoTargets
    /\ dirs = {}
    /\ workdir = NoDirectories
    /\ last = [operation |-> "", name |-> "", exc |-> "", code |-> 0,
               log |-> <<>>, out |-> {}]
    /\ call = [method |-> "", pieces |-> <<>>, text |-> "", result |-> ""]

\* resolve_templates(text) for a text of the test, in a run of its own
Resolve ==
    /\ call.method = ""
    /\ \E pieces \in PieceSeqs :
           call' = [method |-> "resolve_templates", pieces |-> pieces,
                    text |-> Concat(pieces, 1),
                    result |-> resolve_templates_on(platform_system,
                                                    platform_machine,
                                                    Concat(pieces, 1))]
    /\ UNCHANGED <<platform_system, platform_machine, resolved_templates,
                   script_directory, statefile, installed_plugins, targets,
                   dirs, workdir, last>>

\* resolve_templates of what the call before returned
ResolveAgain ==
    /\ call.method = "resolve_templates"
    /\ call' = [method |-> "resolve_templates again", pieces |-> call.pieces,
                text |-> call.result,
                result |-> resolve_templates_on(platform_system,
                                                platform_machine, call.result)]
    /\ UNCHANGED <<platform_system, platform_machine, resolved_templates,
                   script_directory, statefile, installed_plugins, targets,
                   dirs, workdir, last>>

NextTemplates ==
    \/ Resolve
    \/ ResolveAgain

SpecTemplates == InitTemplates /\ [][NextTemplates]_vars

-----------------------------------------------------------------------------
(* arg_parse called directly, as test_cli.py calls it *)

\* a command line has at most this many words after the program name
MaxArgs == 3

Words == {"-v", "help", "install", "uninstall", "search", "disable",
          "update", "upgrade", "list-installed", "bogus", "foo"}

CommandLines == UNION {[1..n -> Words] : n \in 0..MaxArgs}

\* what arg_parse hands back: SystemExit with a code, or the tuple; name is
\* <<>> for None and <<text>> for a text
Exit(code) == [exc |-> "SystemExit", code |-> code, operation |-> "",
               name |-> <<>>, verbose |-> FALSE]

\* arg_parse that takes the word after the command as name for every
\* command
arg_parse_name_for_all(argv) ==
    LET verbose == Len(argv) > 1 /\ argv[2] = "-v"
        args == IF verbose THEN <<argv[1]>> \o SubSeq(argv, 3, Len(argv))
                ELSE argv
    IN IF Len(args) < 2 THEN Exit(0)
       ELSE LET operation == args[2]
            IN IF operation = "help" THEN Exit(0)
               ELSE IF operation \notin {"install", "upgrade", "uninstall",
                                         "update", "disable", "search",
                                         "list-installed"}
               THEN Exit(1)
               ELSE IF Len(args) < 3
               THEN (IF operation \in {"install", "uninstall", "search",
                                       "disable"}
                     THEN Exit(2)
                     ELSE [exc |-> "", code |-> 0, operation |-> operation,
                           name |-> <<>>, verbose |-> verbose])
               ELSE [exc |-> "", code |-> 0, operation |-> operation,
                     name |-> <<args[3]>>, verbose |-> verbose]

\* arg_parse; argv[0] of the code is argv[1] here
arg_parse(argv) ==
    LET verbose == Len(argv) > 1 /\ argv[2] = "-v"
        args == IF verbose THEN <<argv[1]>> \o SubSeq(argv, 3, Len(argv))
                ELSE argv
    IN IF Len(args) < 2 THEN Exit(0)
       ELSE LET operation == args[2]
            IN IF operation = "help" THEN Exit(0)
               ELSE IF operation \notin {"install", "upgrade", "uninstall",
                                         "update", "disable", "search",
                                         "list-installed"}
               THEN Exit(1)
               ELSE IF operation \in {"install", "uninstall", "search",
                                      "disable"}
               THEN (IF Len(args) < 3 THEN Exit(2)
                     ELSE [exc |-> "", code |-> 0, operation |-> operation,
                           name |-> <<args[3]>>, verbose |-> verbose])
               ELSE [exc |-> "", code |-> 0, operation |-> operation,
                     name |-> <<>>, verbose |-> verbose]

InitArgs ==
    /\ platform_system \in HostSystems
    /\ platform_machine \in HostMachines
    /\ resolved_templates =
           [text \in TemplateTexts |->
               resolve_templates_on(platform_system, platform_machine, text)]
    /\ script_directory = LifecycleCatalog
    /\ statefile = [kind |-> "missing", data |-> NoPlugins]
    /\ installed_plugins = NoPlugins
    /\ targets = NoTargets
    /\ dirs = {}
    /\ workdir = NoDirectories
    /\ last = [operation |-> "", name |-> "", exc |-> "", code |-> 0,
               log |-> <<>>, out |-> {}]
    /\ call = [method |-> "", argv |-> <<>>, result |-> Exit(0)]

\* arg_parse(["mplug", ...]), in a run of its own
ArgParse ==
    /\ call.method = ""
    /\ \E words \in CommandLines :
           call' = [method |-> "arg_parse", argv |-> <<"mplug">> \o words,
                    result |-> arg_parse(<<"mplug">> \o words)]
    /\ UNCHANGED <<platform_system, platform_machine, resolved_templates,
                   script_directory, statefile, installed_plugins, targets,
                   dirs, workdir, last>>

NextArgs == ArgParse

SpecArgs == InitArgs /\ [][NextArgs]_vars

-----------------------------------------------------------------------------
(* MPlug.__get_dirs__ on the environments a user can have *)

\* Path.home()
Home == "/home/u"

\* what a directory variable can hold: nothing, or a directory
DirValues == {"", "/d1", "/d2"}

\* what LADSPA_PATH can hold: nothing, one directory, or a list of two
LadspaValues == {"", "/l1", "/l1:/l2"}

DirVariables == {"XDG_DATA_HOME", "XDG_CONFIG_HOME", "APPDATA", "MPV_HOME"}

\* os.environ: the variables that are set, with their values
Environments ==
    UNION {[set -> DirValues] : set \in SUBSET DirVariables}
    \cup UNION {{e @@ ("LADSPA_PATH" :> l) : l \in LadspaValues}
                : e \in UNION {[set -> DirValues]
                               : set \in SUBSET DirVariables}}

\* os.getenv(name), taken as a condition: the variable is set and its
\* value is not the empty text
getenv_true(environ, name) == name \in DOMAIN environ /\ environ[name] # ""

\* text.split(":")[0]
split_first(text) ==
    LET colons == {i \in 1..Len(text) : SubSeq(text, i, i) = ":"}
    IN IF colons = {} THEN text
       ELSE LET k == CHOOSE i \in colons : \A j \in colons : i <= j
            IN SubSeq(text, 1, k - 1)

\* __get_dirs__ that appends "mpv" to MPV_HOME as to the other variables
get_dirs_mpv_home_appended(environ) ==
    LET workdir_ == IF getenv_true(environ, "XDG_DATA_HOME")
                    THEN Join(environ["XDG_DATA_HOME"], "mplug")
                    ELSE IF getenv_true(environ, "APPDATA")
                    THEN Join(environ["APPDATA"], "mplug")
                    ELSE Join(Home, ".mplug")
        mpvdir == IF getenv_true(environ, "MPV_HOME")
                  THEN Join(environ["MPV_HOME"], "mpv")
                  ELSE IF getenv_true(environ, "XDG_CONFIG_HOME")
                  THEN Join(environ["XDG_CONFIG_HOME"], "mpv")
                  ELSE IF getenv_true(environ, "APPDATA")
                  THEN Join(environ["APPDATA"], "mpv")
                  ELSE Join(Home, ".mpv")
    IN [workdir |-> workdir_, mpvdir |-> mpvdir,
        installation_dirs |-> <<>>, directory_folder |-> "", log |-> <<>>]

\* MPlug.__get_dirs__, lines 286-329
get_dirs(environ) ==
    LET workdir_ == IF getenv_true(environ, "XDG_DATA_HOME")
                    THEN Join(environ["XDG_DATA_HOME"], "mplug")
                    ELSE IF getenv_true(environ, "APPDATA")
                    THEN Join(environ["APPDATA"], "mplug")
                    ELSE Join(Home, ".mplug")
        guessed == /\ ~getenv_true(environ, "MPV_HOME")
                   /\ ~getenv_true(environ, "XDG_CONFIG_HOME")
                   /\ ~getenv_true(environ, "APPDATA")
        mpvdir == IF getenv_true(environ, "MPV_HOME")
                  THEN environ["MPV_HOME"]
                  ELSE IF getenv_true(environ, "XDG_CONFIG_HOME")
                  THEN Join(environ["XDG_CONFIG_HOME"], "mpv")
                  ELSE IF getenv_true(environ, "APPDATA")
                  THEN Join(environ["APPDATA"], "mpv")
                  ELSE Join(Home, ".mpv")
        ladspa_dir == IF getenv_true(environ, "LADSPA_PATH")
                      THEN split_first(environ["LADSPA_PATH"])
                      ELSE Join(Home, ".ladspa")
    IN [workdir |-> workdir_,
        mpvdir |-> mpvdir,
        installation_dirs |->
            << <<"scriptfiles", Join(mpvdir, "scripts")>>,
               <<"shaderfiles", Join(mpvdir, "shaders")>>,
               <<"fontfiles", Join(mpvdir, "fonts")>>,
               <<"scriptoptfiles", Join(mpvdir, "script-opts")>>,
               <<"ladspafiles", ladspa_dir>> >>,
        directory_folder |-> Join(workdir_, "mpv_script_dir"),
        log |-> (IF guessed
                 THEN << <<"info", "No environment variable found, guessing",
                           mpvdir>> >>
                 ELSE <<>>)
                \o << <<"debug", "mpvdir", mpvdir>> >>]

InitDirs ==
    /\ platform_system \in HostSystems
    /\ platform_machine \in HostMachines
    /\ resolved_templates =
           [text \in TemplateTexts |->
               resolve_templates_on(platform_system, platform_machine, text)]
    /\ script_directory = LifecycleCatalog
    /\ statefile = [kind |-> "missing", data |-> NoPlugins]
    /\ installed_plugins = NoPlugins
    /\ targets = NoTargets
    /\ dirs = {}
    /\ workdir = NoDirectories
    /\ last = [operation |-> "", name |-> "", exc |-> "", code |-> 0,
               log |-> <<>>, out |-> {}]
    /\ call = [method |-> "", environ |-> <<>>, result |-> get_dirs(<<>>)]

\* MPlug.__get_dirs__(), in a process of its own
GetDirs ==
    /\ call.method = ""
    /\ \E environ \in Environments :
           call' = [method |-> "__get_dirs__", environ |-> environ,
                    result |-> get_dirs(environ)]
    /\ UNCHANGED <<platform_system, platform_machine, resolved_templates,
                   script_directory, statefile, installed_plugins, targets,
                   dirs, workdir, last>>

NextDirs == GetDirs

SpecDirs == InitDirs /\ [][NextDirs]_vars

-----------------------------------------------------------------------------

(* The commands on plugins with executables, starting without a state     *)
(* file or with one whose record of "e" has no exedir.                     *)

InitExe ==
    /\ platform_system \in HostSystems
    /\ platform_machine \in HostMachines
    /\ resolved_templates =
           [text \in TemplateTexts |->
               resolve_templates_on(platform_system, platform_machine, text)]
    /\ script_directory = ExeCatalog
    /\ installed_plugins = NoPlugins
    /\ last = [operation |-> "", name |-> "", exc |-> "", code |-> 0,
               log |-> <<>>, out |-> {}]
    /\ call = [NoCall EXCEPT !.method = "main"]
    /\ \/ /\ statefile = [kind |-> "missing", data |-> NoPlugins]
          /\ targets = NoTargets
          /\ dirs = {}
          /\ workdir = NoDirectories
       \/ /\ statefile = [kind |-> "json", data |-> ExeLedger]
          /\ targets =
                 ("mpv/scripts/e.lua"
                      :> [symlink |-> TRUE, target |-> "e/e.lua"])
                 @@ ("/opt/bin/enc" :> [symlink |-> TRUE, target |-> "e/enc"])
          /\ dirs = {"mpv/scripts", "/opt/bin"}
          /\ workdir = [d \in {"e"} |-> {"e.lua", "enc"}]

NextExe ==
    \/ Install
    \/ Uninstall
    \/ Disable

SpecExe == InitExe /\ [][NextExe]_vars

-----------------------------------------------------------------------------

(* Two invocations of the command on the same working directory: each     *)
(* reads the state file when it starts, runs its operation, and writes     *)
(* the state file when the operation has returned; the steps of the two    *)
(* can alternate.                                                          *)

Procs == {1, 2}

\* the commands the two invocations are started with
ConcurrentCommands ==
    {<<"install", "a">>, <<"install", "b">>, <<"uninstall", "a">>}

\* an invocation that has not started
Idle == [pc |-> "idle", operation |-> "", name |-> "", m |-> Self]

InitConcurrent ==
    /\ platform_system \in HostSystems
    /\ platform_machine \in HostMachines
    /\ resolved_templates =
           [text \in TemplateTexts |->
               resolve_templates_on(platform_system, platform_machine, text)]
    /\ script_directory = LifecycleCatalog
    /\ statefile = [kind |-> "missing", data |-> NoPlugins]
    /\ installed_plugins = NoPlugins
    /\ targets = NoTargets
    /\ dirs = {}
    /\ workdir = NoDirectories
    /\ last = [operation |-> "", name |-> "", exc |-> "", code |-> 0,
               log |-> <<>>, out |-> {}]
    /\ call = [method |-> "concurrent", procs |-> [p \in Procs |-> Idle],
               order |-> <<>>]

\* the object of an invocation, on the file system as it is now
OnDisk(m) ==
    [m EXCEPT !.statefile = statefile, !.targets = targets, !.dirs = dirs,
              !.workdir = workdir]

Stepped(p, step, pc, operation, name, m) ==
    /\ call' = [call EXCEPT
                   !.procs[p] = [pc |-> pc, operation |-> operation,
                                 name |-> name, m |-> m],
                   !.order = Append(@, <<p, step>>)]
    /\ last' = [operation |-> operation, name |-> name, exc |-> m.exc,
                code |-> m.code, log |-> m.log, out |-> m.out]
    /\ UNCHANGED <<platform_system, platform_machine, resolved_templates,
                   script_directory>>

\* main, line 62: MPlug() reads the state file
Start ==
    \E p \in Procs :
        /\ call.procs[p].pc = "idle"
        /\ \E command \in ConcurrentCommands :
               \A m \in {load_state(OnDisk(call.procs[p].m))} :
                   Stepped(p, "load",
                           IF Running(m) THEN "loaded" ELSE "done",
                           command[1], command[2], m)
        /\ UNCHANGED <<statefile, installed_plugins, targets, dirs, workdir>>

\* main, lines 64-81: the operation, on the Ledger that was read
Operate ==
    \E p \in Procs :
        /\ call.procs[p].pc = "loaded"
        /\ \E m \in operation_of(OnDisk(call.procs[p].m),
                                 call.procs[p].operation,
                                 call.procs[p].name) :
               /\ Stepped(p, "operation",
                          IF Running(m) THEN "ran" ELSE "done",
                          call.procs[p].operation, call.procs[p].name, m)
               /\ targets' = m.targets
               /\ dirs' = m.dirs
               /\ workdir' = m.workdir
        /\ UNCHANGED <<statefile, installed_plugins>>

\* main, line 83: the Ledger of the invocation is written
Save ==
    \E p \in Procs :
        /\ call.procs[p].pc = "ran"
        /\ \A m \in {save_state_to_disk(OnDisk(call.procs[p].m))} :
               /\ Stepped(p, "save", "done", call.procs[p].operation,
                          call.procs[p].name, m)
               /\ statefile' = m.statefile
               /\ installed_plugins' = m.installed_plugins
        /\ UNCHANGED <<targets, dirs, workdir>>

NextConcurrent ==
    \/ Start
    \/ Operate
    \/ Save

SpecConcurrent == InitConcurrent /\ [][NextConcurrent]_vars

-----------------------------------------------------------------------------

(* Notions the claims are stated in *)

\* the Ledger as the state file holds it, which is what __init__ loads
LedgerOnDisk == IF statefile.kind = "json" THEN statefile.data ELSE NoPlugins

LogHas(log, what, arg1, arg2) ==
    \E i \in 1..Len(log) : log[i] = <<what, arg1, arg2>>

\* the run that led to this state returned normally
Returned == last.exc = ""

\* the file system of the current state, as the operators above read it
FS == [targets |-> targets, workdir |-> workdir]

\* for a Ledger record, the link (dst) and the file (src) of every path in
\* its per-category lists
LinkPaths(record) ==
    LET paths(filelist, folder) ==
            {[dst |-> Join(folder, PathName(resolve_templates(filelist[i]))),
              src |-> Join(record.install_dir, resolve_templates(filelist[i]))]
             : i \in 1..Len(filelist)}
    IN UNION {paths(Get(record, installation_dirs[i][1], <<>>),
                    installation_dirs[i][2])
              : i \in 1..Len(installation_dirs)}
       \cup (IF "exedir" \in DOMAIN record
              THEN paths(Get(record, "exefiles", <<>>), record.exedir)
              ELSE {})

\* a symlink at path that points to the file src
LinkTo(t, path, src) ==
    path \in DOMAIN t /\ t[path].symlink /\ t[path].target = src

\* a symlink that points into the directory install_dir
PointsInto(entry, install_dir) ==
    entry.symlink /\ StartsWithAt(entry.target, 1, install_dir \o "/")

\* the catalog entries that have an install_dir
Installable == {p \in PluginIds : "install_dir" \in DOMAIN script_directory[p]}

\* the plugin a run of uninstall or disable under this name is about
NamedBy(ledger, name) ==
    {p \in DOMAIN ledger :
        \/ name = p
        \/ name \notin PluginIds /\ ledger[p].name = name}

-----------------------------------------------------------------------------
(* C1 *)

\* C1: however install ends without completing (exit 4, 0, 13, 5, 14, 15 or
\* a failed fetch), the in-memory Ledger is what it was when the invocation
\* loaded it: no record added, replaced or modified.
C1_FailedInstallLeavesLedger ==
    [][(last'.operation = "install" /\ last'.exc # "")
       => installed_plugins' = LedgerOnDisk]_vars

\* an install that linked a file and then ended with exit 14, with a plugin
\* in the Ledger
C1_Witness ==
    /\ last.operation = "install"
    /\ last.exc = "SystemExit" /\ last.code = 14
    /\ \E i \in 1..Len(last.log) : last.log[i][1] = "symlink"
    /\ installed_plugins # NoPlugins

-----------------------------------------------------------------------------
(* C2 *)

\* C2: no step removes or replaces an entry of a target directory that
\* exists and is not a symlink; an install that meets such an entry ends
\* with exit 15, an uninstall or disable with exit 12, and the uninstall of
\* a plugin one of whose recorded links is such an entry ends with exit 12.
C2_ForeignEntriesKept ==
    [][/\ \A p \in ForeignFiles(targets) :
             p \in DOMAIN targets' /\ targets'[p] = targets[p]
       /\ \A i \in 1..Len(last'.log) :
             /\ (last'.log[i][1] = "error"
                 /\ last'.log[i][2] = "not a symlink")
                => /\ last'.operation = "install"
                   /\ last'.exc = "SystemExit" /\ last'.code = 15
                   /\ last'.log[i][3] \in ForeignFiles(targets')
             /\ (last'.log[i][1] = "critical")
                => /\ last'.operation \in {"uninstall", "disable"}
                   /\ last'.exc = "SystemExit" /\ last'.code = 12
                   /\ last'.log[i][3] \in ForeignFiles(targets')
       /\ \A P \in DOMAIN LedgerOnDisk :
             (/\ LogHas(last'.log, "debug", "Remove links of", P)
              /\ \E lp \in LinkPaths(LedgerOnDisk[P]) :
                     lp.dst \in ForeignFiles(targets))
             => last'.exc = "SystemExit" /\ last'.code = 12]_vars

\* an uninstall ended with exit 12 at a file of the user, which is there
C2_Witness ==
    /\ last.operation = "uninstall"
    /\ last.exc = "SystemExit" /\ last.code = 12
    /\ \E p \in ForeignFiles(targets) :
           LogHas(last.log, "critical", "not a symlink", p)

-----------------------------------------------------------------------------
(* C3 *)

\* no plugin that is absent from the Ledger has a symlink that points into
\* its install_dir
NoLinkOfAbsentPlugin ==
    \A P \in Installable \ DOMAIN installed_plugins :
        \A p \in DOMAIN targets :
            ~PointsInto(targets[p], script_directory[P].install_dir)

\* no plugin that is absent from the Ledger has a symlink that resolves to a
\* file of its install_dir
NoLiveLinkOfAbsentPlugin(ledger, fs) ==
    \A P \in Installable \ DOMAIN ledger :
        \A p \in DOMAIN fs.targets :
            PointsInto(fs.targets[p], script_directory[P].install_dir)
            => ~exists(fs, p)

-----------------------------------------------------------------------------
(* C4 *)

-----------------------------------------------------------------------------
(* C5 *)

-----------------------------------------------------------------------------
(* C6 *)

\* C6: a disable that returns for an installed plugin P, named by id or by
\* display name, removes P's symlinks, leaves P's install_dir in place,
\* keeps P's record with state "disabled", and list-installed then shows P
\* with the suffix " [DISABLED]".
C6_DisableKeepsPlugin ==
    [][\A P \in NamedBy(LedgerOnDisk, last'.name) :
          (last'.operation = "disable" /\ last'.exc = "")
          => /\ \A lp \in LinkPaths(LedgerOnDisk[P]) :
                    ~LinkTo(targets', lp.dst, lp.src)
             /\ LedgerOnDisk[P].install_dir \in DOMAIN workdir'
             /\ P \in DOMAIN installed_plugins'
             /\ installed_plugins'[P].state = "disabled"
             /\ (P \o " [DISABLED]")
                    \in list_installed([installed_plugins |->
                                           installed_plugins',
                                       out |-> {}]).out]_vars

-----------------------------------------------------------------------------
(* C7 *)

\* position of the first event of a kind in a log, 0 if there is none
FirstEvent(log, what) ==
    IF \E i \in 1..Len(log) : log[i][1] = what
    THEN CHOOSE i \in 1..Len(log) :
             log[i][1] = what /\ \A j \in 1..(i - 1) : log[j][1] # what
    ELSE 0

\* C7: an uninstall with remove = true that completes for P removes the
\* symlink of every file P's record lists, then deletes P's install_dir,
\* then deletes P's record; afterwards none of those symlinks exists, the
\* directory is gone and P is not in the Ledger.
C7_UninstallRemovesAll ==
    [][\A P \in DOMAIN LedgerOnDisk :
          (/\ last'.operation = "uninstall" /\ last'.exc = ""
           /\ LogHas(last'.log, "debug", "Remove links of", P))
          => /\ \A lp \in LinkPaths(LedgerOnDisk[P]) :
                    ~(lp.dst \in DOMAIN targets' /\ targets'[lp.dst].symlink)
             /\ LedgerOnDisk[P].install_dir \notin DOMAIN workdir'
             /\ P \notin DOMAIN installed_plugins'
             /\ FirstEvent(last'.log, "rmtree") > 0
             /\ FirstEvent(last'.log, "rmtree")
                    < FirstEvent(last'.log, "ledger del")
             /\ \A i \in 1..Len(last'.log) :
                    last'.log[i][1] = "remove"
                    => i < FirstEvent(last'.log, "rmtree")]_vars

-----------------------------------------------------------------------------
(* C8 *)

\* C8: uninstall and disable of a plugin id that is not in the Ledger end
\* with exit 10 and leave the Ledger and the file system unchanged.
C8_NotInstalledExits10 ==
    [][(/\ last'.operation \in {"uninstall", "disable"}
        /\ last'.name \in PluginIds
        /\ last'.name \notin DOMAIN LedgerOnDisk)
       => /\ last'.exc = "SystemExit" /\ last'.code = 10
          /\ installed_plugins' = LedgerOnDisk
          /\ targets' = targets /\ workdir' = workdir]_vars

-----------------------------------------------------------------------------
(* C9 *)

\* C9: for a display name that is not a plugin id, uninstall is called only
\* when exactly one installed plugin carries the name and the user
\* confirms; with no Ledger entry of that name the run ends with exit 10,
\* with several candidates it ends with exit 10, a declined confirmation
\* ends with exit 0, and in these three cases Ledger and symlinks are
\* unchanged.
C9_UninstallByDisplayName ==
    [][(/\ last'.operation \in {"uninstall", "disable"}
        /\ last'.name \notin PluginIds)
       => LET matches == {p \in DOMAIN LedgerOnDisk :
                             LedgerOnDisk[p].name = last'.name}
              called == \/ last'.exc = "KeyError"
                        \/ \E i \in 1..Len(last'.log) :
                               /\ last'.log[i][1] = "debug"
                               /\ last'.log[i][2] = "Remove links of"
              asked(answer) == \E i \in 1..Len(last'.log) :
                                   /\ last'.log[i][1] = "ask_yes_no"
                                   /\ last'.log[i][3] = answer
              unchanged == /\ installed_plugins' = LedgerOnDisk
                           /\ targets' = targets
          IN /\ called => Cardinality(matches) = 1 /\ asked("y")
             /\ matches = {}
                => last'.exc = "SystemExit" /\ last'.code = 10 /\ unchanged
             /\ Len(plugin_id_by_name(last'.name)) > 1
                => last'.exc = "SystemExit" /\ last'.code = 10 /\ unchanged
             /\ asked("n")
                => last'.exc = "SystemExit" /\ last'.code = 0 /\ unchanged
      ]_vars

-----------------------------------------------------------------------------
(* C10 *)

\* C10: when install finds a symlink that points elsewhere, a declined
\* overwrite prompt ends the run with exit 0 and leaves the link in place,
\* and an accepted one is followed by the removal of the link and the
\* creation of the new one.
C10_OverwritePrompt ==
    \A i \in 1..Len(last.log) :
        (last.operation = "install"
         /\ last.log[i][1] = "ask_yes_no"
         /\ last.log[i][2] = "Overwrite file?")
        => /\ last.log[i][3] = "n"
              => /\ i = Len(last.log)
                 /\ last.exc = "SystemExit" /\ last.code = 0
           /\ last.log[i][3] = "y"
              => /\ i + 2 <= Len(last.log)
                 /\ last.log[i + 1][1] = "remove"
                 /\ last.log[i + 2][1] = "symlink"
                 /\ last.log[i + 2][2] = last.log[i + 1][2]

-----------------------------------------------------------------------------
(* C11 *)

\* what a fetch, a question asked by install, or a change of a target
\* directory leaves in the log
FetchEvents == {"git clone", "git pull", "download_tar", "download_file"}

InstallQuestions == {"Warning: This plugin works only on ... Continue?",
                     "Overwrite file?", "Where to put executable files?"}

\* C11: an install that reaches a Catalog entry without an install field
\* ends with exit 4, and that is the last thing it does: before it there was
\* no question about the operating system, no fetch, no other question of
\* install and no change of a link, and the Ledger, the state file, the
\* target directories and the working directory are what they were.  An
\* install by the id of such an entry always ends this way.
C11_NoInstallMethod ==
    [][/\ \A P \in PluginIds :
             LogHas(last'.log, "error", "No installation method", P)
             => /\ "install" \notin DOMAIN script_directory[P]
                /\ last'.exc = "SystemExit" /\ last'.code = 4
                /\ last'.log[Len(last'.log)]
                       = <<"error", "No installation method", P>>
                /\ \A i \in 1..Len(last'.log) :
                       /\ last'.log[i][1] \notin FetchEvents
                       /\ last'.log[i][1] \notin {"symlink", "remove",
                                                   "ledger set", "json.dump"}
                       /\ last'.log[i][2] \notin InstallQuestions
                /\ installed_plugins' = LedgerOnDisk
                /\ statefile' = statefile
                /\ targets' = targets
                /\ workdir' = workdir
       /\ (/\ last'.operation = "install"
           /\ last'.name \in PluginIds
           /\ "install" \notin DOMAIN script_directory[last'.name])
          => LogHas(last'.log, "error", "No installation method", last'.name)
      ]_vars

\* the install of "noinst", which has no install field and lists another
\* operating system than the host's, ended with exit 4 while another plugin
\* is in the Ledger
C11_Witness ==
    /\ last.operation = "install" /\ last.name = "noinst"
    /\ "os" \in DOMAIN script_directory["noinst"]
    /\ ~InSeq(title(platform_system), script_directory["noinst"].os)
    /\ last.exc = "SystemExit" /\ last.code = 4
    /\ installed_plugins # NoPlugins

-----------------------------------------------------------------------------
(* C12 *)

\* the paths in the target directory that the entries of filelist name
NamedPaths(filelist) ==
    {Join(DstDir, PathName(resolve_templates(filelist[i])))
     : i \in 1..Len(filelist)}

\* __uninstall_files__ is called with the list that the call before it,
\* an __install_files__ that returned, was called with
RoundTrip ==
    /\ call'.method = "__uninstall_files__"
    /\ call.method = "__install_files__"
    /\ call.exc = ""
    /\ call'.filelist = call.filelist

\* C12 as the specification states it: after the round trip the target
\* directory holds exactly the entries it held before the install.
C12_Original == [][RoundTrip => targets' = call.before]_vars

\* C12: the round trip ends without an error and leaves exactly the prior
\* entries that no entry of the list names; a prior symlink under a listed
\* name (the right link already, a link the user let install overwrite, a
\* dangling link) is gone.  The directory is as it was before exactly when
\* no listed name was taken.
C12_RoundTripKeepsUnnamed ==
    [][RoundTrip
       => /\ call'.exc = ""
          /\ targets' = [p \in DOMAIN call.before \ NamedPaths(call.filelist)
                            |-> call.before[p]]
          /\ (targets' = call.before
              <=> DOMAIN call.before \cap NamedPaths(call.filelist) = {})
      ]_vars

\* a round trip over a directory that held a link to another file under a
\* listed name and a file of the user under another name: the file is kept,
\* the link is gone
C12_Witness ==
    /\ call.method = "__uninstall_files__" /\ call.exc = ""
    /\ call.prev.method = "__install_files__" /\ call.prev.exc = ""
    /\ call.prev.filelist = call.filelist
    /\ LinkTo(call.prev.before, "mpv/scripts/x.lua", "b/x.lua")
    /\ "mpv/scripts/other.lua" \in ForeignFiles(call.prev.before)
    /\ LogHas(call.prev.log, "ask_yes_no", "Overwrite file?", "y")
    /\ DOMAIN targets = {"mpv/scripts/other.lua"}

-----------------------------------------------------------------------------
(* C13 *)

\* __install_files__ is called with the list that the call before it, an
\* __install_files__ that returned, was called with
SecondCall ==
    /\ call'.method = "__install_files__"
    /\ call.method = "__install_files__"
    /\ call.exc = ""
    /\ call'.filelist = call.filelist

\* the second call returns without a question and without a new link, its
\* list is empty, and every file of the list has its link
SecondCallIsNoOp ==
    /\ call'.exc = ""
    /\ call'.files = <<>>
    /\ \A i \in 1..Len(call'.log) :
           call'.log[i][1] \notin {"ask_yes_no", "symlink", "remove"}
    /\ \A i \in 1..Len(call'.filelist) :
           LET file == resolve_templates(call'.filelist[i])
           IN LinkTo(targets', Join(DstDir, PathName(file)),
                     Join(SrcDir, file))

\* C13: a second __install_files__ with the arguments of a first one that
\* succeeded succeeds too, asks nothing, creates no symlink, returns the
\* empty list and leaves one symlink per file that points at its source.
C13_SecondCallIsNoOp == [][SecondCall => SecondCallIsNoOp]_vars

\* the same for the lists whose entries have different last components
C13_DistinctNames ==
    [][(/\ SecondCall
        /\ Cardinality(NamedPaths(call.filelist)) = Len(call.filelist))
       => SecondCallIsNoOp]_vars

-----------------------------------------------------------------------------
(* C14 *)

\* the positions of the events of one kind in a log
EventsOf(log, what) == {i \in 1..Len(log) : log[i][1] = what}

\* C14: every invocation reads the state file exactly once, before anything
\* else.  An invocation whose operation returned writes it exactly once, as
\* the last thing it does, and the file then holds the Ledger; an invocation
\* that ended in a fatal exit, an exception or a declined question does not
\* write it, and the file holds what it held.
C14_LoadOnceSaveOnce ==
    [][last'.operation # "(user)"
       => /\ EventsOf(last'.log, "json.load") = {1}
          /\ IF last'.exc = ""
             THEN /\ EventsOf(last'.log, "json.dump") = {Len(last'.log)}
                  /\ statefile' = [kind |-> "json",
                                   data |-> installed_plugins']
             ELSE /\ EventsOf(last'.log, "json.dump") = {}
                  /\ statefile' = statefile
      ]_vars

\* the user declined a question and the run ended with exit 0; the state
\* file holds the Ledger that an earlier run wrote
C14_Witness ==
    /\ last.exc = "SystemExit" /\ last.code = 0
    /\ \E i \in 1..Len(last.log) :
           last.log[i][1] = "ask_yes_no" /\ last.log[i][3] = "n"
    /\ statefile.kind = "json" /\ statefile.data # NoPlugins
    /\ statefile.data = installed_plugins

-----------------------------------------------------------------------------
(* C15 *)

\* the candidates that install_by_name and search hand to
\* __install_from_list__ in a run of the operation with this text
Candidates(operation, name) ==
    IF operation = "search" THEN search_plugins(name)
    ELSE IF name \in PluginIds THEN <<>>
    ELSE plugin_id_by_name(name)

\* the answer to ask_num chooses none of the options
NoChoice(answer, options) ==
    answer = "EOF" \/ int(answer) < 0 \/ int(answer) >= Len(options)

\* the run ended with exit 0 at the event i of its log and, apart from
\* reading the state file and asking, did nothing
EndedUnchangedAt(i) ==
    /\ last'.exc = "SystemExit" /\ last'.code = 0
    /\ i = Len(last'.log)
    /\ \A j \in 1..Len(last'.log) :
           \/ last'.log[j][1] \in {"json.load", "ask_yes_no", "ask_num"}
           \/ /\ last'.log[j][1] = "print"
              /\ last'.log[j + 1][1] \in {"print", "ask_num"}
    /\ installed_plugins' = LedgerOnDisk
    /\ statefile' = statefile
    /\ targets' = targets
    /\ workdir' = workdir

-----------------------------------------------------------------------------
(* C16 *)

\* the run is an upgrade whose refresh of the catalog succeeded
UpgradeAfterRefresh ==
    /\ last'.operation = "upgrade"
    /\ LogHas(last'.log, "update", "mpv_script_dir", "")

\* C16: an upgrade is not ended by what happens for one Ledger record: it
\* returns, and every record of the Ledger had its turn, whether the fetch
\* for a record before it failed or its method is not known.
C16_UpgradeSkipsFailures ==
    [][UpgradeAfterRefresh
       => /\ last'.exc = ""
          /\ \A P \in DOMAIN LedgerOnDisk :
                 LogHas(last'.log, "info", "Updating plugin",
                        LedgerOnDisk[P].name)
      ]_vars

-----------------------------------------------------------------------------
(* C17 *)

\* what the fetch that matches a Ledger record leaves in the log, whether
\* it succeeds or fails
MatchingFetch(record) ==
    LET url == resolve_templates(record.receiving_url)
    IN IF record.install = "git"
       THEN {<<"git pull", record.install_dir, "">>,
             <<"git pull", record.install_dir, "failed">>}
       ELSE IF record.install = "tar"
       THEN {<<"download_tar", record.install_dir, url>>,
             <<"download_tar", record.install_dir, "failed">>}
       ELSE IF record.install = "url"
       THEN LET file == Join(record.install_dir,
                             resolve_templates(record.filename))
            IN {<<"download_file", file, url>>,
                <<"download_file", file, "failed">>}
       ELSE {}

\* upgrade first refreshes the catalog, and every record of the Ledger,
\* active or disabled, has exactly one fetch, the one that matches its
\* method; there is no other fetch
FetchesEveryRecord ==
    /\ last'.log[2] = <<"update", "mpv_script_dir", "">>
    /\ \A P \in DOMAIN LedgerOnDisk :
           LedgerOnDisk[P].install \in {"git", "tar", "url"}
           => Cardinality({i \in 1..Len(last'.log) :
                              last'.log[i] \in MatchingFetch(LedgerOnDisk[P])})
              = 1
    /\ \A i \in 1..Len(last'.log) :
           last'.log[i][1] \in FetchEvents
           => \E P \in DOMAIN LedgerOnDisk :
                  last'.log[i] \in MatchingFetch(LedgerOnDisk[P])

\* C17: an upgrade whose refresh of the catalog succeeded runs, after the
\* refresh, exactly one fetch for every Ledger record, active or disabled:
\* a git pull in install_dir, a download and extraction of the resolved
\* receiving_url into install_dir, or a download of the resolved
\* receiving_url to the resolved filename in install_dir.
C17_UpgradeFetchesEveryRecord ==
    [][UpgradeAfterRefresh => FetchesEveryRecord]_vars

\* the same for the upgrades in which no fetch fails
C17_WhenNoFetchFails ==
    [][(/\ UpgradeAfterRefresh
        /\ \A i \in 1..Len(last'.log) : last'.log[i][3] # "failed")
       => FetchesEveryRecord]_vars

-----------------------------------------------------------------------------
(* C18 *)

\* C18: an uninstall or disable that meets an entry which exists and is not
\* a symlink where a link of the plugin should be ends with exit 12, and
\* every run that ends with exit 12 leaves the Ledger with the record as it
\* was, the state file as it was and the working directory, install_dir
\* included, as it was.
C18_ForeignTargetStopsUninstall ==
    [][/\ (\E i \in 1..Len(last'.log) : last'.log[i][1] = "critical")
          => last'.exc = "SystemExit" /\ last'.code = 12
       /\ (last'.exc = "SystemExit" /\ last'.code = 12)
          => /\ last'.operation \in {"uninstall", "disable"}
             /\ installed_plugins' = LedgerOnDisk
             /\ statefile' = statefile
             /\ workdir' = workdir
             /\ \A P \in NamedBy(LedgerOnDisk, last'.name) :
                    /\ P \in DOMAIN installed_plugins'
                    /\ installed_plugins'[P] = LedgerOnDisk[P]
                    /\ LedgerOnDisk[P].install_dir \in DOMAIN workdir'
      ]_vars

\* an uninstall removed one link of the plugin, then met a file of the user
\* and ended with exit 12; the record and the directory are still there
C18_Witness ==
    /\ last.operation = "uninstall"
    /\ last.exc = "SystemExit" /\ last.code = 12
    /\ \E i \in 1..Len(last.log) : last.log[i][1] = "remove"
    /\ last.name \in DOMAIN installed_plugins
    /\ installed_plugins[last.name].state = "active"
    /\ installed_plugins[last.name].install_dir \in DOMAIN workdir

-----------------------------------------------------------------------------
(* C19 *)

\* the fields that install adds to the Catalog entry
AddedFields(entry) ==
    {"install_date", "state"}
    \cup (IF "exefiles" \in DOMAIN entry THEN {"exedir"} ELSE {})

\* C19: after an install of P that completed, whatever the Ledger held for
\* P before (nothing, an active or a disabled record), the Ledger and the
\* state file hold under P the fields of the Catalog entry with their
\* values, install_date = now and state = active, and nothing else; the
\* files were fetched again, and the other records are as they were.
C19_InstallReplacesRecord ==
    [][\A P \in PluginIds :
         /\ (/\ last'.operation = "install" /\ last'.name = P
             /\ last'.exc = "")
            => LogHas(last'.log, "ledger set", P, "active")
         /\ (/\ last'.operation = "install"
             /\ LogHas(last'.log, "ledger set", P, "active"))
           => \A entry \in {script_directory[P]} :
                  /\ last'.exc = ""
                  /\ P \in DOMAIN installed_plugins'
                  /\ DOMAIN installed_plugins'[P]
                         = DOMAIN entry \cup AddedFields(entry)
                  /\ \A f \in DOMAIN entry \ AddedFields(entry) :
                         installed_plugins'[P][f] = entry[f]
                  /\ installed_plugins'[P].install_date = Now
                  /\ installed_plugins'[P].state = "active"
                  /\ statefile'.kind = "json"
                  /\ statefile'.data = installed_plugins'
                  /\ \E i \in 1..Len(last'.log) :
                         last'.log[i][1] \in FetchEvents
                  /\ DOMAIN installed_plugins' = DOMAIN LedgerOnDisk \cup {P}
                  /\ \A Q \in DOMAIN LedgerOnDisk \ {P} :
                         installed_plugins'[Q] = LedgerOnDisk[Q]
      ]_vars

\* "u", which the state file of an earlier version held as disabled with an
\* older date, is active with the date of the install that just completed,
\* beside the other record of that file
C19_Witness ==
    /\ script_directory = LegacyCatalog
    /\ last.operation = "install" /\ last.name = "u" /\ last.exc = ""
    /\ LegacyLedger["u"].state = "disabled"
    /\ installed_plugins["u"].state = "active"
    /\ installed_plugins["u"].install_date = Now
    /\ installed_plugins["u"].install_date # LegacyLedger["u"].install_date
    /\ installed_plugins["old"] = LegacyLedger["old"]

-----------------------------------------------------------------------------
(* C20 *)

\* the place of a key in the catalog
KeyPosition(key) ==
    CHOOSE i \in 1..Len(script_directory_keys) : script_directory_keys[i] = key

\* options are the entries of the catalog with this display name, each
\* once, in the order of the catalog
CatalogOrder(options, name) ==
    /\ {options[i] : i \in 1..Len(options)}
           = {p \in PluginIds : script_directory[p].name = name}
    /\ \A i, j \in 1..Len(options) :
           i < j => KeyPosition(options[i]) < KeyPosition(options[j])

\* the run touched no other plugin than P: every fetch went into the
\* directory of P, every new link points into it, and the Ledger differs
\* from the one loaded at most in the record of P
TouchedOnly(P) ==
    /\ \A i \in 1..Len(last'.log) :
           /\ last'.log[i][1] \in FetchEvents
              => \/ last'.log[i][2] = script_directory[P].install_dir
                 \/ StartsWithAt(last'.log[i][2], 1,
                                 script_directory[P].install_dir \o "/")
           /\ last'.log[i][1] = "symlink"
              => StartsWithAt(last'.log[i][3], 1,
                              script_directory[P].install_dir \o "/")
           /\ last'.log[i][1] = "ledger set" => last'.log[i][2] = P
    /\ DOMAIN installed_plugins' \subseteq DOMAIN LedgerOnDisk \cup {P}
    /\ \A Q \in DOMAIN LedgerOnDisk \ {P} :
           Q \in DOMAIN installed_plugins'
           /\ installed_plugins'[Q] = LedgerOnDisk[Q]

-----------------------------------------------------------------------------
(* C21 *)

\* the ids of the entries whose name or desc holds the text, both compared
\* without regard to case, each once and in the order of the catalog
CaseInsensitiveMatches(text) ==
    items_from(script_directory_keys, 1,
               {key \in DOMAIN script_directory :
                   \/ Contains(lower_text(Get(script_directory[key], "name",
                                              "")),
                               lower_text(text))
                   \/ Contains(lower_text(Get(script_directory[key], "desc",
                                              "")),
                               lower_text(text))})

\* the run of search showed exactly these candidates: none and the error,
\* the question about the only one, or the numbered list
SearchShowed(options) ==
    IF Len(options) = 0
    THEN last'.log[2] = <<"error", "No matching plugins found.", "">>
    ELSE IF Len(options) = 1
    THEN /\ last'.log[2][1] = "ask_yes_no"
         /\ last'.log[2][2] = "Install " \o options[1] \o "?"
    ELSE /\ \A i \in 1..Len(options) :
                last'.log[1 + i]
                    = <<"print", "[" \o str(i - 1) \o "]", options[i]>>
         /\ last'.log[2 + Len(options)][1] = "ask_num"

\* C21: the candidates of a search are the entries whose name or desc holds
\* the text, compared without regard to case, each once and in the order of
\* the catalog.
C21_SearchIgnoresCase ==
    [][last'.operation = "search"
       => \A options \in {CaseInsensitiveMatches(last'.name)} :
              SearchShowed(options)]_vars

\* the same for the entries whose name has no capital letter
C21_LowerCaseNames ==
    [][(/\ last'.operation = "search"
        /\ \A key \in PluginIds :
               script_directory[key].name
                   = lower_text(script_directory[key].name)
               \/ ~Contains(lower_text(script_directory[key].name),
                            lower_text(last'.name)))
       => \A options \in {CaseInsensitiveMatches(last'.name)} :
              SearchShowed(options)]_vars

-----------------------------------------------------------------------------
(* C22 *)

\* what a placeholder stands for on a host; any other piece stands for
\* itself
ValueOf(piece, system, machine) ==
    CASE piece = "{{os}}" ->
             (CASE system = "Windows" -> "windows"
                [] system = "Linux" -> "linux"
                [] system = "Darwin" -> "darwin")
      [] piece = "{{arch}}" -> machine
      [] piece = "{{arch-short}}" ->
             (IF machine = "x86_64" THEN "x64" ELSE "x32")
      [] piece = "{{shared-lib-ext}}" ->
             (IF system = "Windows" THEN "dll" ELSE "so")
      [] piece = "{{executable-ext}}" ->
             (IF system = "Windows" THEN "exe" ELSE "")
      [] OTHER -> piece

\* the text with every placeholder replaced by what it stands for, and
\* without the dot directly before a placeholder that stands for nothing
RECURSIVE Resolved(_, _, _, _)
Resolved(pieces, i, system, machine) ==
    IF i > Len(pieces) THEN ""
    ELSE (IF /\ pieces[i] = "."
             /\ i < Len(pieces)
             /\ pieces[i + 1] \in Placeholders
             /\ ValueOf(pieces[i + 1], system, machine) = ""
          THEN ""
          ELSE ValueOf(pieces[i], system, machine))
         \o Resolved(pieces, i + 1, system, machine)

\* the text is made of placeholders and of text without braces
NoBracePieces(pieces) ==
    \A i \in 1..Len(pieces) : pieces[i] \notin BracePieces

C22_WitnessWindows ==
    /\ call.method = "resolve_templates"
    /\ platform_system = "Windows"
    /\ call.text = "f.{{executable-ext}}"
    /\ call.result = "f.exe"

-----------------------------------------------------------------------------
(* C23 *)

\* no placeholder is left in the text
NoPlaceholderIn(text) == \A p \in Placeholders : ~Contains(text, p)

\* C23 as the specification states it: for every text, resolving what
\* resolve_templates returned returns it unchanged.
C23_Original ==
    call.method = "resolve_templates again" => call.result = call.text

\* C23: resolving what resolve_templates returned returns it unchanged
\* whenever no placeholder is left in it, and none is left for a text made
\* of placeholders and of text without braces.  A text in which a
\* placeholder is split by another one that stands for nothing can resolve
\* to a text that holds a placeholder, which a second call replaces.
C23_IdempotentWithoutPlaceholder ==
    call.method = "resolve_templates again"
    => /\ NoPlaceholderIn(call.text) => call.result = call.text
       /\ NoBracePieces(call.pieces) => NoPlaceholderIn(call.text)

\* a text with two placeholders and a dot was resolved twice, with the same
\* result, on a host where the second placeholder stands for nothing
C23_Witness ==
    /\ call.method = "resolve_templates again"
    /\ call.pieces = <<"{{os}}", ".", "{{executable-ext}}">>
    /\ platform_system = "Linux"
    /\ call.text = "linux" /\ call.result = "linux"

-----------------------------------------------------------------------------
(* C24 *)

\* the words of the command line after the program name and after one
\* leading -v
CommandWords(argv) ==
    IF Len(argv) > 1 /\ argv[2] = "-v" THEN SubSeq(argv, 3, Len(argv))
    ELSE SubSeq(argv, 2, Len(argv))

NamedCommands == {"install", "uninstall", "search", "disable"}

PlainCommands == {"update", "upgrade", "list-installed"}

\* C24: arg_parse exits with 0 when there is no command or the command is
\* help, with 1 for a command that is none of the seven, with 2 when
\* install, uninstall, search or disable has no name; otherwise it returns
\* the command, the name (the word after the command for those four, None
\* for update, upgrade and list-installed) and whether -v came first.
C24_ArgParse ==
    call.method = "arg_parse"
    => \A words \in {CommandWords(call.argv)} :
           \A result \in {call.result} :
               IF words = <<>> \/ words[1] = "help"
               THEN result.exc = "SystemExit" /\ result.code = 0
               ELSE IF words[1] \notin NamedCommands \cup PlainCommands
               THEN result.exc = "SystemExit" /\ result.code = 1
               ELSE IF words[1] \in NamedCommands /\ Len(words) < 2
               THEN result.exc = "SystemExit" /\ result.code = 2
               ELSE /\ result.exc = ""
                    /\ result.operation = words[1]
                    /\ result.name = IF words[1] \in NamedCommands
                                     THEN <<words[2]>> ELSE <<>>
                    /\ result.verbose = (call.argv[2] = "-v")

\* "mplug -v upgrade foo" gave (upgrade, None, True)
C24_Witness ==
    /\ call.method = "arg_parse"
    /\ call.argv = <<"mplug", "-v", "upgrade", "foo">>
    /\ call.result = [exc |-> "", code |-> 0, operation |-> "upgrade",
                      name |-> <<>>, verbose |-> TRUE]

-----------------------------------------------------------------------------
(* C25 *)

\* C25: a command that finds no state file starts with the empty Ledger and
\* goes on to its operation; a command that finds a state file that is not
\* JSON ends with exit 11 right after reading it, before its operation, and
\* leaves the file and everything else as it was.  No other run ends with
\* exit 11.
C25_StateFileAtStartup ==
    [][last'.operation # "(user)"
       => /\ statefile.kind = "missing"
             => /\ ~(last'.exc = "SystemExit" /\ last'.code = 11)
                /\ last'.log[1] = <<"json.load", "installed_plugins",
                                    "missing">>
                /\ \A i \in DOMAIN last'.log :
                       last'.log[i][2] # "Failed to load mplug file"
                /\ last'.operation = "list-installed"
                   => /\ last'.exc = "" /\ last'.out = {}
                      /\ installed_plugins' = NoPlugins
                      /\ statefile' = [kind |-> "json", data |-> NoPlugins]
          /\ statefile.kind = "corrupt"
             => /\ last'.exc = "SystemExit" /\ last'.code = 11
                /\ last'.log = << <<"json.load", "installed_plugins",
                                    "corrupt">>,
                                  <<"error", "Failed to load mplug file",
                                    "">> >>
                /\ statefile' = statefile
                /\ targets' = targets
                /\ workdir' = workdir
          /\ (last'.exc = "SystemExit" /\ last'.code = 11)
             => statefile.kind = "corrupt"
      ]_vars

\* an upgrade ended with exit 11 at a state file that is not JSON, which is
\* still there, beside the directories of the plugins
C25_Witness ==
    /\ last.operation = "upgrade"
    /\ last.exc = "SystemExit" /\ last.code = 11
    /\ statefile.kind = "corrupt"
    /\ DOMAIN workdir # {}

-----------------------------------------------------------------------------
(* C26 *)

\* the value of the first of the variables that is set, with its position,
\* or <<>> when none is
FirstSet(environ, names) ==
    LET set == {i \in 1..Len(names) : names[i] \in DOMAIN environ}
    IN IF set = {} THEN <<>>
       ELSE LET k == CHOOSE i \in set : \A j \in set : i <= j
            IN <<names[k], environ[names[k]]>>

\* the same, for the variables that are set to a text that is not empty
FirstNonEmpty(environ, names) ==
    FirstSet([n \in {v \in DOMAIN environ : environ[v] # ""} |-> environ[n]],
             names)

\* the working root and the config root that the variable found gives
WorkingRootOf(found) ==
    IF found = <<>> THEN Home \o "/.mplug" ELSE found[2] \o "/mplug"

ConfigRootOf(found) ==
    IF found = <<>> THEN Home \o "/.mpv"
    ELSE IF found[1] = "MPV_HOME" THEN found[2]
    ELSE found[2] \o "/mpv"

\* two environments that differ at most in the given variables
SameExcept(e1, e2, names) ==
    /\ DOMAIN e1 \ names = DOMAIN e2 \ names
    /\ \A n \in DOMAIN e1 \ names : e1[n] = e2[n]

\* the two roots do not depend on the variables of the other choice
C26_Independent ==
    \A other \in Environments :
        /\ SameExcept(call.environ, other, {"MPV_HOME", "XDG_CONFIG_HOME"})
           => get_dirs(other).workdir = call.result.workdir
        /\ SameExcept(call.environ, other, {"XDG_DATA_HOME"})
           => get_dirs(other).mpvdir = call.result.mpvdir

-----------------------------------------------------------------------------
(* C27 *)

\* __install_from_list__ has asked: the options of ask_num are in the log,
\* or a question of ask_yes_no that install does not ask
AskedToConfirm(log) ==
    \E i \in 1..Len(log) :
        \/ log[i][1] = "ask_num"
        \/ log[i][1] = "ask_yes_no" /\ log[i][2] \notin InstallQuestions
        \/ log[i][1] = "print" /\ StartsWithAt(log[i][2], 1, "[")

\* C27: in a run that has loaded its Ledger, an install with a text that is
\* a key of the catalog installs the entry of that key, without a question to confirm it and without touching
\* another plugin, whether or not other entries have that text as their
\* display name.  An install with a text that is not a key first asks about
\* the entries that have exactly this display name, in the order of the
\* catalog; when there is none it ends with exit 3 after the error message,
\* and nothing is installed.
C27_KeyBeforeName ==
    [][(last'.operation = "install" /\ statefile.kind # "corrupt")
       => /\ last'.name \in PluginIds
             => /\ ~AskedToConfirm(last'.log)
                /\ TouchedOnly(last'.name)
                /\ last'.exc = ""
                   => /\ last'.name \in DOMAIN installed_plugins'
                      /\ installed_plugins'[last'.name].state = "active"
                      /\ \E k \in 1..Len(last'.log) :
                             last'.log[k][1] \in FetchEvents
          /\ last'.name \notin PluginIds
             => \A options \in {plugin_id_by_name(last'.name)} :
                   /\ CatalogOrder(options, last'.name)
                   /\ Len(options) = 1
                      => /\ last'.log[2][1] = "ask_yes_no"
                         /\ last'.log[2][2] = "Install " \o options[1] \o "?"
                   /\ Len(options) > 1
                      => last'.log[2] = <<"print", "[0]", options[1]>>
                   /\ Len(options) = 0
                      => /\ last'.exc = "SystemExit" /\ last'.code = 3
                         /\ last'.log =
                                << <<"json.load", "installed_plugins",
                                     statefile.kind>>,
                                   <<"error", "No matching plugins found.",
                                     "">> >>
                         /\ installed_plugins' = LedgerOnDisk
                         /\ statefile' = statefile
                         /\ targets' = targets
                         /\ workdir' = workdir
      ]_vars

\* "c" is a key and the display name of "odd"; the install of "c" went to
\* the entry "c" and fetched its file, without a question
C27_Witness ==
    /\ last.operation = "install" /\ last.name = "c"
    /\ "odd" \in PluginIds /\ script_directory["odd"].name = "c"
    /\ ~AskedToConfirm(last.log)
    /\ \E k \in 1..Len(last.log) :
           /\ last.log[k][1] = "download_file"
           /\ StartsWithAt(last.log[k][2], 1, "c/")

\* the install of a text that is neither a key nor a display name ended
\* with exit 3 while a plugin was installed
C27_WitnessNotFound ==
    /\ last.operation = "install" /\ last.name = "zeta"
    /\ last.exc = "SystemExit" /\ last.code = 3
    /\ installed_plugins # NoPlugins

-----------------------------------------------------------------------------
(* C28 *)

\* the entry has an install method and lacks a field that the method needs
LacksRequiredField(plugin) ==
    /\ "install" \in DOMAIN plugin
    /\ \/ "install_dir" \notin DOMAIN plugin
       \/ "receiving_url" \notin DOMAIN plugin
       \/ plugin.install = "url" /\ "filename" \notin DOMAIN plugin

\* the run neither fetched nor linked, and left the Ledger, the state file
\* and the directories as they were
NothingFetchedOrLinked ==
    /\ \A i \in 1..Len(last'.log) :
           last'.log[i][1] \notin FetchEvents \cup {"symlink"}
    /\ installed_plugins' = LedgerOnDisk
    /\ statefile' = statefile
    /\ targets' = targets
    /\ workdir' = workdir

\* C28: in a run that has loaded its Ledger, the install of the key of an
\* entry that has an install method, but not install_dir, not receiving_url,
\* or, with the method url, not filename, ends with exit 13 unless it ended
\* at the question about the operating system; nothing was fetched, no
\* symlink was made and the Ledger is as it was.
C28_MissingField ==
    [][(/\ last'.operation = "install"
        /\ statefile.kind # "corrupt"
        /\ last'.name \in PluginIds
        /\ LacksRequiredField(script_directory[last'.name])
        /\ ~(last'.exc = "SystemExit" /\ last'.code = 0))
       => /\ last'.exc = "SystemExit" /\ last'.code = 13
          /\ NothingFetchedOrLinked
      ]_vars

\* the same for the entries that lack install_dir or receiving_url
C28_DirAndUrl ==
    [][(/\ last'.operation = "install"
        /\ statefile.kind # "corrupt"
        /\ last'.name \in PluginIds
        /\ "install" \in DOMAIN script_directory[last'.name]
        /\ {"install_dir", "receiving_url"}
               \ DOMAIN script_directory[last'.name] # {}
        /\ ~(last'.exc = "SystemExit" /\ last'.code = 0))
       => /\ last'.exc = "SystemExit" /\ last'.code = 13
          /\ NothingFetchedOrLinked
      ]_vars

\* the install of an entry with the method url and without filename ended
\* with a KeyError
C28_NoFilename ==
    /\ last.operation = "install" /\ last.name = "nofile"
    /\ last.exc = "KeyError"

-----------------------------------------------------------------------------
(* C29 *)

\* what the fetch of an installation method leaves in the log
MethodFetches(method) ==
    IF method = "git" THEN {"git clone", "git pull"}
    ELSE IF method = "url" THEN {"download_file"}
    ELSE IF method = "tar" THEN {"download_tar"}
    ELSE {}

FetchIndexes(log) == {i \in 1..Len(log) : log[i][1] \in FetchEvents}

C29_WitnessUnknownMethod ==
    /\ last.operation = "install" /\ last.name = "odd"
    /\ script_directory["odd"].install = "svn"
    /\ last.exc = "SystemExit" /\ last.code = 5

\* the install of "u", with the method url, returned after the download of
\* its file
C29_WitnessUrl ==
    /\ last.operation = "install" /\ last.name = "u" /\ last.exc = ""
    /\ \E i \in 1..Len(last.log) : last.log[i][1] = "download_file"

-----------------------------------------------------------------------------
(* C30 *)

\* the paths that the downloads of these plugins with the method url are to
\* be written to: install_dir joined with the resolved filename
UrlPaths(plugins) ==
    {Join(plugins[p].install_dir, resolve_templates(plugins[p].filename))
     : p \in {q \in DOMAIN plugins :
                 /\ {"install", "install_dir", "filename"}
                        \subseteq DOMAIN plugins[q]
                 /\ plugins[q].install = "url"}}

\* every download of a single file in the run went to one of the paths
DownloadsGoTo(paths) ==
    \A i \in 1..Len(last'.log) :
        last'.log[i][1] = "download_file" => last'.log[i][2] \in paths

\* C30: every download of a single file by an install of a key goes to the
\* install_dir of that entry joined with its filename after the
\* placeholders are resolved, and every such download by an upgrade goes to
\* that path of a record of the Ledger, whether or not the filename has
\* placeholders.
C30_SamePathOnInstallAndUpgrade ==
    [][/\ (last'.operation = "install" /\ last'.name \in PluginIds)
          => DownloadsGoTo(UrlPaths([p \in {last'.name} |->
                                        script_directory[p]]))
       /\ last'.operation = "upgrade"
          => DownloadsGoTo(UrlPaths(LedgerOnDisk))
      ]_vars

\* the same for upgrade alone
C30_UpgradeResolves ==
    [][last'.operation = "upgrade" => DownloadsGoTo(UrlPaths(LedgerOnDisk))
      ]_vars

\* the install of "u" wrote its download to the filename as the catalog has
\* it, with the placeholder in it
C30_InstallKeepsPlaceholder ==
    /\ last.operation = "install" /\ last.name = "u" /\ last.exc = ""
    /\ "u-{{arch-short}}.lua" \in workdir["u"]
    /\ LogHas(last.log, "download_file", "u/u-{{arch-short}}.lua",
              resolve_templates(script_directory["u"].receiving_url))

-----------------------------------------------------------------------------
(* C31 *)

OsQuestion == "Warning: This plugin works only on ... Continue?"

\* the answer to the question about the operating system, if it was asked
OsAnswers(log) ==
    {log[i][3] : i \in {j \in 1..Len(log) :
                           log[j][1] = "ask_yes_no" /\ log[j][2] = OsQuestion}}

\* C31: in a run that has loaded its Ledger, the install of the key of an
\* entry with an install method asks the question about the operating
\* system exactly when the os list of the entry is not empty and does not
\* hold the host's system; with no list, an empty list or a list with the
\* host it goes on without that question.  When the user answers no, the
\* run ends with exit 0: nothing was fetched or linked and the Ledger is as
\* it was.
C31_OsQuestion ==
    [][(/\ last'.operation = "install"
        /\ statefile.kind # "corrupt"
        /\ last'.name \in PluginIds
        /\ "install" \in DOMAIN script_directory[last'.name])
       => \A supported \in {Get(script_directory[last'.name], "os", <<>>)} :
             /\ OsAnswers(last'.log) # {}
                <=> /\ supported # <<>>
                    /\ ~InSeq(platform_system, supported)
             /\ "n" \in OsAnswers(last'.log)
                => /\ last'.exc = "SystemExit" /\ last'.code = 0
                   /\ NothingFetchedOrLinked
      ]_vars

\* "win" lists Windows only; on this host its install asked, the user said
\* no, and the run ended with exit 0
C31_Witness ==
    /\ last.operation = "install" /\ last.name = "win"
    /\ platform_system \notin {"Windows"}
    /\ OsAnswers(last.log) = {"n"}
    /\ last.exc = "SystemExit" /\ last.code = 0

\* "b" lists the host's system: its install went on to the fetch without
\* the question
C31_WitnessSupported ==
    /\ last.operation = "install" /\ last.name = "b"
    /\ InSeq(platform_system, script_directory["b"].os)
    /\ OsAnswers(last.log) = {}
    /\ \E i \in 1..Len(last.log) : last.log[i][1] = "download_tar"

\* "nourl" has an empty list: its install went on without the question
C31_WitnessEmptyList ==
    /\ last.operation = "install" /\ last.name = "nourl"
    /\ script_directory["nourl"].os = <<>>
    /\ OsAnswers(last.log) = {}
    /\ last.code = 13

-----------------------------------------------------------------------------
(* C32 *)

\* the run left the Ledger and the file system as they were
NothingChanged ==
    /\ installed_plugins' = LedgerOnDisk
    /\ targets' = targets
    /\ workdir' = workdir

\* a record is active after the run that was not active before it
Activated ==
    {P \in DOMAIN installed_plugins' :
        /\ installed_plugins'[P].state = "active"
        /\ P \in DOMAIN LedgerOnDisk => LedgerOnDisk[P].state # "active"}

\* C32: a disable that returns for a plugin P that is disabled changes
\* neither the Ledger nor the file system; an uninstall that returns for a
\* disabled P deletes P's install_dir and P's record; and no run other than
\* an install makes a record active.
C32_DisabledPlugin ==
    [][/\ \A P \in NamedBy(LedgerOnDisk, last'.name) :
              (last'.exc = "" /\ LedgerOnDisk[P].state = "disabled")
              => /\ last'.operation = "disable" => NothingChanged
                 /\ last'.operation = "uninstall"
                    => /\ LedgerOnDisk[P].install_dir \notin DOMAIN workdir'
                       /\ P \notin DOMAIN installed_plugins'
       /\ (last'.operation # "(user)" /\ Activated # {})
          => last'.operation = "install"
      ]_vars

\* the same for the disable by display name alone, which keeps the record
C32_DisableByDisplayName ==
    [][\A P \in NamedBy(LedgerOnDisk, last'.name) :
          (/\ last'.operation = "disable" /\ last'.exc = ""
           /\ last'.name \notin PluginIds
           /\ LedgerOnDisk[P].state = "disabled")
          => NothingChanged
      ]_vars

\* the same without the disable of a disabled plugin
C32_UninstallAndActivation ==
    [][/\ \A P \in NamedBy(LedgerOnDisk, last'.name) :
              (/\ last'.operation = "uninstall" /\ last'.exc = ""
               /\ LedgerOnDisk[P].state = "disabled")
              => /\ LedgerOnDisk[P].install_dir \notin DOMAIN workdir'
                 /\ P \notin DOMAIN installed_plugins'
       /\ (last'.operation # "(user)" /\ Activated # {})
          => last'.operation = "install"
      ]_vars

\* a disabled plugin was uninstalled: its directory and its record are gone
C32_UninstalledFromDisabled ==
    /\ last.operation = "uninstall" /\ last.exc = "" /\ last.name = "beta"
    /\ LogHas(last.log, "rmtree", "b", "")
    /\ "b" \notin DOMAIN installed_plugins
    /\ "b" \notin DOMAIN workdir

-----------------------------------------------------------------------------
(* C33 *)

\* the record lists executables but not the directory they are in
ExedirUnknown(record) ==
    Get(record, "exefiles", <<>>) # <<>> /\ "exedir" \notin DOMAIN record

\* the links that are not below the player's directories or LADSPA_PATH:
\* those of the executables
ExeLinks(t) ==
    {p \in DOMAIN t :
        \A i \in 1..Len(installation_dirs) :
            ~StartsWithAt(p, 1, installation_dirs[i][2] \o "/")}

UnknownLocation == <<"error", "Can't uninstall files: unknown location.", "">>

\* C33: an uninstall or disable that reaches a record that lists exefiles
\* and has no exedir logs an error and goes on: no link of an executable is
\* removed, the symlinks of the other categories are gone afterwards, and
\* the run returns with the install_dir deleted and the record removed, or
\* with the record set to disabled and the install_dir kept.
C33_UnknownExedir ==
    [][\A P \in DOMAIN LedgerOnDisk :
          (/\ last'.operation \in {"uninstall", "disable"}
           /\ LogHas(last'.log, "debug", "Remove links of", P)
           /\ ExedirUnknown(LedgerOnDisk[P]))
          => /\ LogHas(last'.log, UnknownLocation[1], UnknownLocation[2],
                       UnknownLocation[3])
             /\ \A p \in ExeLinks(targets) :
                    p \in DOMAIN targets' /\ targets'[p] = targets[p]
             /\ \A lp \in LinkPaths(LedgerOnDisk[P]) :
                    ~(lp.dst \in DOMAIN targets' /\ targets'[lp.dst].symlink)
             /\ last'.exc = ""
             /\ \/ /\ LogHas(last'.log, "rmtree",
                             LedgerOnDisk[P].install_dir, "")
                   /\ LedgerOnDisk[P].install_dir \notin DOMAIN workdir'
                   /\ P \notin DOMAIN installed_plugins'
                \/ /\ LedgerOnDisk[P].install_dir \in DOMAIN workdir'
                   /\ workdir' = workdir
                   /\ P \in DOMAIN installed_plugins'
                   /\ installed_plugins'[P].state = "disabled"
      ]_vars

\* the same, for the symlinks of the other categories that resolve when the
\* run starts
C33_ResolvingLinks ==
    [][\A P \in DOMAIN LedgerOnDisk :
          (/\ last'.operation \in {"uninstall", "disable"}
           /\ LogHas(last'.log, "debug", "Remove links of", P)
           /\ ExedirUnknown(LedgerOnDisk[P]))
          => /\ LogHas(last'.log, UnknownLocation[1], UnknownLocation[2],
                       UnknownLocation[3])
             /\ \A p \in ExeLinks(targets) :
                    p \in DOMAIN targets' /\ targets'[p] = targets[p]
             /\ \A lp \in LinkPaths(LedgerOnDisk[P]) :
                    exists(FS, lp.dst) => lp.dst \notin DOMAIN targets'
             /\ last'.exc = ""
             /\ \/ /\ LogHas(last'.log, "rmtree",
                             LedgerOnDisk[P].install_dir, "")
                   /\ LedgerOnDisk[P].install_dir \notin DOMAIN workdir'
                   /\ P \notin DOMAIN installed_plugins'
                \/ /\ LedgerOnDisk[P].install_dir \in DOMAIN workdir'
                   /\ workdir' = workdir
                   /\ P \in DOMAIN installed_plugins'
                   /\ installed_plugins'[P].state = "disabled"
      ]_vars

\* the record of "e" had no exedir: its uninstall removed the link of the
\* script, the directory and the record, and left the link of the
\* executable
C33_Witness ==
    /\ last.operation = "uninstall" /\ last.name = "e" /\ last.exc = ""
    /\ LogHas(last.log, UnknownLocation[1], UnknownLocation[2],
              UnknownLocation[3])
    /\ LogHas(last.log, "remove", "mpv/scripts/e.lua", "")
    /\ LinkTo(targets, "/opt/bin/enc", "e/enc")
    /\ "e" \notin DOMAIN workdir
    /\ "e" \notin DOMAIN installed_plugins

\* the same for a disable by display name, which keeps the directory
C33_WitnessDisabled ==
    /\ last.operation = "disable" /\ last.name = "encoder" /\ last.exc = ""
    /\ LogHas(last.log, UnknownLocation[1], UnknownLocation[2],
              UnknownLocation[3])
    /\ "e" \in DOMAIN installed_plugins
    /\ installed_plugins["e"].state = "disabled"
    /\ "exedir" \notin DOMAIN installed_plugins["e"]
    /\ "e" \in DOMAIN workdir
    /\ "mpv/scripts/e.lua" \notin DOMAIN targets

-----------------------------------------------------------------------------
(* C34 *)

\* the answers to the question for the directory of the executables
ExedirAnswers(log) ==
    {log[i][3] : i \in {j \in 1..Len(log) : log[j][1] = "ask_path"}}

\* every link to an executable of the plugin that the run made is in exedir
ExeLinksMadeIn(log, plugin, exedir) ==
    \A i \in 1..Len(log) :
        (/\ log[i][1] = "symlink"
         /\ \E k \in 1..Len(plugin.exefiles) :
                log[i][3] = Join(plugin.install_dir,
                                 resolve_templates(plugin.exefiles[k])))
        => \E k \in 1..Len(plugin.exefiles) :
               log[i][2] = Join(exedir,
                                PathName(resolve_templates(plugin.exefiles[k])))

\* C34: the record that an install writes for P has an exedir exactly when
\* the exefiles list of the entry of P is not empty; the run asks for the
\* directory of the executables only in that case; and the exedir recorded
\* is the directory the links to the executables were made in.
C34_ExedirIffExefiles ==
    [][\A P \in PluginIds :
          (/\ last'.operation = "install"
           /\ last'.name = P)
          => \A plugin \in {script_directory[P]} :
                /\ ExedirAnswers(last'.log) # {}
                   => Get(plugin, "exefiles", <<>>) # <<>>
                /\ last'.exc = ""
                   => /\ "exedir" \in DOMAIN installed_plugins'[P]
                         <=> Get(plugin, "exefiles", <<>>) # <<>>
                      /\ "exedir" \in DOMAIN installed_plugins'[P]
                         => ExeLinksMadeIn(last'.log, plugin,
                                           installed_plugins'[P].exedir)
      ]_vars

\* the same with "the entry has the key exefiles" in place of "the list is
\* not empty"
C34_ExedirIffKey ==
    [][\A P \in PluginIds :
          (/\ last'.operation = "install"
           /\ last'.name = P)
          => \A plugin \in {script_directory[P]} :
                /\ ExedirAnswers(last'.log) # {}
                   => "exefiles" \in DOMAIN plugin
                /\ last'.exc = ""
                   => /\ ExedirAnswers(last'.log) # {}
                         <=> "exefiles" \in DOMAIN plugin
                      /\ "exedir" \in DOMAIN installed_plugins'[P]
                         <=> "exefiles" \in DOMAIN plugin
                      /\ "exedir" \in DOMAIN installed_plugins'[P]
                         => ExeLinksMadeIn(last'.log, plugin,
                                           installed_plugins'[P].exedir)
      ]_vars

\* the install of "n", whose exefiles list is empty, asked for the
\* directory and recorded the answer
C34_EmptyListAsked ==
    /\ last.operation = "install" /\ last.name = "n" /\ last.exc = ""
    /\ script_directory["n"].exefiles = <<>>
    /\ ExedirAnswers(last.log) = {"/opt/bin"}
    /\ installed_plugins["n"].exedir = "/opt/bin"

\* the install of "e" linked its executable into the directory the user
\* named, and recorded it
C34_ExeLinked ==
    /\ last.operation = "install" /\ last.name = "e" /\ last.exc = ""
    /\ installed_plugins["e"].exedir = "/opt/bin"
    /\ LogHas(last.log, "symlink", "/opt/bin/enc", "e/enc")

-----------------------------------------------------------------------------
(* C35 *)

PromptEvents == {"ask_yes_no", "ask_num", "ask_path"}

\* the prompts of the run at which the input ended or was interrupted
EndOfInputAt(log) ==
    {i \in 1..Len(log) : log[i][1] \in PromptEvents /\ log[i][3] = "EOF"}

\* what declines at a prompt: no, something that is not a number, nothing
Refusal(prompt) ==
    IF prompt = "ask_yes_no" THEN "n"
    ELSE IF prompt = "ask_num" THEN "x"
    ELSE ""

\* the log with a refusal in place of every end of input
Declined(log) ==
    [i \in 1..Len(log) |->
        IF i \in EndOfInputAt(log)
        THEN <<log[i][1], log[i][2], Refusal(log[i][1])>>
        ELSE log[i]]

\* the run went and ended as a run of the same command in which the user
\* declines
SameAsRefusal ==
    \E m \in main(last'.operation, last'.name) :
        /\ m.log = Declined(last'.log)
        /\ m.exc = last'.exc /\ m.code = last'.code
        /\ m.installed_plugins = installed_plugins'
        /\ m.statefile = statefile'
        /\ m.targets = targets'
        /\ m.workdir = workdir'

\* C35: a run in which the input ends or is interrupted at a prompt (a
\* question answered by yes or no, a numbered choice, a question for a path)
\* does not end with an exception that nobody handles, and goes and ends as
\* the same run with a refusal at that prompt.
C35_EndOfInputDeclines ==
    [][(last'.operation # "(user)" /\ EndOfInputAt(last'.log) # {})
       => /\ last'.exc \in {"", "SystemExit"}
          /\ SameAsRefusal
      ]_vars

\* the same for the numbered choice alone
C35_NumberedChoice ==
    [][(/\ last'.operation # "(user)"
        /\ \E i \in EndOfInputAt(last'.log) : last'.log[i][1] = "ask_num")
       => /\ last'.exc \in {"", "SystemExit"}
          /\ SameAsRefusal
      ]_vars

\* the input ended at the question of ask_yes_no: the run ended with an
\* EOFError
C35_YesNoRaises ==
    /\ last.exc = "EOFError"
    /\ Len(last.log) > 0
    /\ last.log[Len(last.log)][1] = "ask_yes_no"
    /\ last.log[Len(last.log)][3] = "EOF"

\* the input ended at the numbered choice: the run ended with exit 0
C35_NumberedChoiceDeclined ==
    /\ last.exc = "SystemExit" /\ last.code = 0
    /\ Len(last.log) > 0
    /\ last.log[Len(last.log)][1] = "ask_num"
    /\ last.log[Len(last.log)][3] = "EOF"

-----------------------------------------------------------------------------
(* C36 *)

\* position of a step of an invocation in the order of the steps, 0 if it
\* has not been taken
StepAt(p, step) ==
    IF \E i \in 1..Len(call.order) : call.order[i] = <<p, step>>
    THEN CHOOSE i \in 1..Len(call.order) : call.order[i] = <<p, step>>
    ELSE 0

\* C36: each of two invocations on the same working directory takes the
\* Ledger from the state file as it is when the invocation starts, and when
\* its operation has returned writes its own Ledger, whole, over whatever
\* the state file holds by then.
C36_LoadAtStartWriteWhole ==
    [][\A p \in Procs :
          /\ (call.procs[p].pc = "idle" /\ call'.procs[p].pc = "loaded")
             => call'.procs[p].m.installed_plugins = LedgerOnDisk
          /\ (call.procs[p].pc = "ran" /\ call'.procs[p].pc = "done")
             => /\ statefile' =
                       [kind |-> "json",
                        data |-> call.procs[p].m.installed_plugins]
                /\ call'.procs[p].m.installed_plugins
                       = call.procs[p].m.installed_plugins
      ]_vars

\* both invocations read the state file before either wrote it, both
\* returned, and a plugin that one of them installed has its links and is
\* not in the state file
C36_Witness ==
    /\ \A p \in Procs : call.procs[p].pc = "done" /\ call.procs[p].m.exc = ""
    /\ \A p, q \in Procs : StepAt(p, "load") < StepAt(q, "save")
    /\ \E p \in Procs :
           \E P \in PluginIds :
               /\ call.procs[p].operation = "install"
               /\ LogHas(call.procs[p].m.log, "ledger set", P, "active")
               /\ P \in DOMAIN call.procs[p].m.installed_plugins
               /\ \A lp \in LinkPaths(call.procs[p].m.installed_plugins[P]) :
                      LinkTo(targets, lp.dst, lp.src)
               /\ P \in DOMAIN workdir
               /\ statefile.kind = "json"
               /\ P \notin DOMAIN statefile.data

-----------------------------------------------------------------------------
(* C37 *)

\* C37: an uninstall or disable of the plugin A removes only symlinks that
\* point into the install_dir of A; every link of another active plugin B
\* that is there when the run starts is there afterwards and points to the
\* same file of B, also when A lists a file of the same basename for the
\* same directory.
C37_OnlyOwnLinksRemoved ==
    [][\A A \in DOMAIN LedgerOnDisk :
          (/\ last'.operation \in {"uninstall", "disable"}
           /\ LogHas(last'.log, "debug", "Remove links of", A))
          => /\ \A i \in 1..Len(last'.log) :
                    last'.log[i][1] = "remove"
                    => PointsInto(targets[last'.log[i][2]],
                                  LedgerOnDisk[A].install_dir)
             /\ \A B \in DOMAIN LedgerOnDisk \ {A} :
                    LedgerOnDisk[B].state = "active"
                    => \A lp \in LinkPaths(LedgerOnDisk[B]) :
                           LinkTo(targets, lp.dst, lp.src)
                           => LinkTo(targets', lp.dst, lp.src)
      ]_vars

\* "a" and "b" were active and mpv/scripts/x.lua pointed to the file of
\* "b"; the uninstall of "a" removed it, and "b" is still active
C37_LinkOfOtherPluginRemoved ==
    /\ last.operation = "uninstall" /\ last.name = "a" /\ last.exc = ""
    /\ LogHas(last.log, "remove", "mpv/scripts/x.lua", "")
    /\ "b" \in DOMAIN installed_plugins
    /\ installed_plugins["b"].state = "active"
    /\ "b" \in DOMAIN workdir /\ "sub/x.lua" \in workdir["b"]
    /\ "mpv/scripts/x.lua" \notin DOMAIN targets
    /\ "a" \notin DOMAIN installed_plugins

-----------------------------------------------------------------------------
(* C38 *)

\* C38: when __uninstall_files__(filelist, folder) has returned, folder has
\* no entry with the basename of a file of the list, also when the entry
\* was a symlink to a file that is no longer there.
C38_NoEntryLeft ==
    (call.method = "__uninstall_files__" /\ call.exc = "")
    => \A i \in 1..Len(call.filelist) :
           Join(DstDir, PathName(resolve_templates(call.filelist[i])))
               \notin DOMAIN targets

\* the same for the entries that resolve before the call
C38_ResolvingEntriesRemoved ==
    (call.method = "__uninstall_files__" /\ call.exc = "")
    => \A i \in 1..Len(call.filelist) :
           \A dst \in {Join(DstDir,
                            PathName(resolve_templates(call.filelist[i])))} :
               exists([targets |-> call.before, workdir |-> workdir], dst)
               => dst \notin DOMAIN targets

\* __uninstall_files__ returned and left the symlink to a file that is no
\* longer there
C38_DanglingLinkLeft ==
    /\ call.method = "__uninstall_files__" /\ call.exc = ""
    /\ call.filelist = <<"x.lua">>
    /\ LinkTo(targets, "mpv/scripts/x.lua", "gone/x.lua")
    /\ call.log = <<>>

-----------------------------------------------------------------------------
(* C39 *)

\* C39: an upgrade, however it ends, leaves the Ledger as it was loaded
\* (the same plugin ids, the same fields and state in every record) and
\* makes or removes no symlink: the entries of the target directories are
\* the same before and after.  When it returns, the state file holds that
\* Ledger.
C39_UpgradeKeepsLedgerAndLinks ==
    [][last'.operation = "upgrade"
       => /\ installed_plugins' = LedgerOnDisk
          /\ targets' = targets
          /\ \A i \in 1..Len(last'.log) :
                 last'.log[i][1] \notin {"symlink", "remove", "ledger set",
                                         "ledger del"}
          /\ last'.exc = ""
             => statefile' = [kind |-> "json", data |-> LedgerOnDisk]
      ]_vars

\* an upgrade downloaded the file of the disabled plugin "u" and returned:
\* "u" is still disabled and has no link
C39_Witness ==
    /\ last.operation = "upgrade" /\ last.exc = ""
    /\ \E i \in 1..Len(last.log) :
           last.log[i][1] = "download_file" /\ last.log[i][3] # "failed"
    /\ "u" \in DOMAIN installed_plugins
    /\ installed_plugins["u"].state = "disabled"
    /\ \A lp \in LinkPaths(installed_plugins["u"]) :
           lp.dst \notin DOMAIN targets

-----------------------------------------------------------------------------
(* C40 *)

IsSymlinkEvent(e) == e[1] = "symlink"

\* the links that the call made, in the order it made them: each event
\* holds the path of the link and the source of the entry it was made for
LinksMade == SelectSeq(call.log, IsSymlinkEvent)

\* the list has no duplicates, it names the links made one by one, and
\* every path of it is a symlink to the source of the entry it was made for
ReturnedListIsRight ==
    /\ \A i, j \in 1..Len(call.files) :
           call.files[i] = call.files[j] => i = j
    /\ Len(call.files) = Len(LinksMade)
    /\ \A k \in 1..Len(call.files) :
           /\ call.files[k] = LinksMade[k][2]
           /\ LinkTo(targets, call.files[k], LinksMade[k][3])

\* C40: the list that __install_files__ returns has no duplicates, and
\* every path of it is, when the call returns, a symlink that resolves to
\* the source of the entry of the file list it was created for, also when
\* two entries of the list have the same basename in different
\* subdirectories.
C40_ReturnedLinksResolve ==
    (call.method = "__install_files__" /\ call.exc = "")
    => ReturnedListIsRight

\* the same for the lists whose entries have different basenames
C40_DistinctBasenames ==
    (/\ call.method = "__install_files__" /\ call.exc = ""
     /\ Cardinality(NamedPaths(call.filelist)) = Len(call.filelist))
    => ReturnedListIsRight

\* a call with two files of different basenames returned both links
C40_TwoLinksReturned ==
    /\ call.method = "__install_files__" /\ call.exc = ""
    /\ call.filelist = <<"x.lua", "y.lua">>
    /\ call.files = <<"mpv/scripts/x.lua", "mpv/scripts/y.lua">>
    /\ LinkTo(targets, "mpv/scripts/x.lua", "a/x.lua")
    /\ LinkTo(targets, "mpv/scripts/y.lua", "a/y.lua")

\* the call returned the same path twice, and the link made for x.lua
\* points at sub/x.lua
C40_SharedBasename ==
    /\ call.method = "__install_files__" /\ call.exc = ""
    /\ call.filelist = <<"x.lua", "sub/x.lua">>
    /\ call.files = <<"mpv/scripts/x.lua", "mpv/scripts/x.lua">>
    /\ LinksMade[1][3] = "a/x.lua"
    /\ LinkTo(targets, "mpv/scripts/x.lua", "a/sub/x.lua")

=============================================================================
